---- MODULE Spec2Model ----
(***************************************************************************)
(* Model of the DXF editing operations of ai_cad_editor.                   *)
(*                                                                         *)
(* A persisted document is the layer table plus the modelspace entity      *)
(* sequence, which is what every traversal of operations/core.py and       *)
(* operations/spatial.py iterates.  The file system maps a location to     *)
(* <<>> (no file) or <<doc>>.  Every operation reads the whole document    *)
(* from its dxf_path, works on the in-memory copy and, for a mutation,     *)
(* writes the whole copy with saveas.                                      *)
(*                                                                         *)
(* Coordinates are integers; a center is the exact rational                *)
(* (nx/den, ny/den), so midpoints and vertex means are not rounded.        *)
(* A distance is carried as its square, (num / den^2); comparing and       *)
(* ordering squares of non-negative numbers is comparing and ordering      *)
(* the numbers.                                                            *)
(***************************************************************************)
EXTENDS Integers, Sequences, FiniteSets, TLC

VARIABLES files, last, budget, request, callers, agent

vars == <<files, last, budget, request, callers, agent>>

----------------------------------------------------------------------------
(* Bounds of the model *)

\* entities of a generated document
MaxEntities == 2

\* calls of one run of the mutation specification
MaxMutations == 1

\* calls of one run of the repeated-recoloring specification
MaxCalls == 2

----------------------------------------------------------------------------
(* Values *)

\* ACI value of an entity color that inherits from its layer
BYLAYER == 256

\* Python None
None == "None"

SrcPath == "in.dxf"

OutPath == "out.dxf"

Paths == {SrcPath, OutPath}

HandleOf(i) ==
  IF i = 1 THEN "H1" ELSE IF i = 2 THEN "H2" ELSE IF i = 3 THEN "H3"
  ELSE IF i = 4 THEN "H4" ELSE IF i = 5 THEN "H5" ELSE IF i = 6 THEN "H6" ELSE "H7"

\* a handle no generated document holds
UnknownHandle == HandleOf(MaxEntities + 1)

Handles == {HandleOf(i) : i \in 1..MaxEntities} \cup {UnknownHandle}

LayerNames == {"WALL", "ROOM"}

\* a layer name that no document defines and no entity carries
NoSuchLayer == "NONE"

LayerColors == {1, 2}

\* MTEXT inline formatting code (such as \L), removed by plain_text()
FMT == "\\L"

\* raw text contents used as stored text and as new_text
Texts == {<<"a">>, <<FMT, "b">>}

\* what a kind stores besides its points: the closed flag of a polyline,
\* whether one of its segments has a non-zero bulge, the radius of a circle;
\* area is the value of the attribute "area" of the entity object (<<>> when
\* it has none, <<a>> otherwise) and get_area tells whether the entity
\* object offers a callable get_area; fails names the access to the entity
\* object that raises an exception ("none" for a well-formed entity)
Geom(closed, bulge, radius) ==
  [closed |-> closed, bulge |-> bulge, radius |-> radius, area |-> <<>>,
   get_area |-> FALSE, fails |-> "none"]

NoGeom == Geom(FALSE, FALSE, 0)

Ent(h, t, l, c, txt, pts, geom) ==
  [handle |-> h, dxftype |-> t, layer |-> l, color |-> c, text |-> txt, pts |-> pts,
   geom |-> geom]

Doc(layers, entities) == [layers |-> layers, entities |-> entities]

----------------------------------------------------------------------------
(* The loaded document: ezdxf.readfile, doc.entitydb, doc.layers *)

\* mutant of readfile: after a mutation the document is served from what the
\* mutation had loaded, not from the file
readfile_cached(fs, dxf_path) ==
  IF last.op \in {"color_layer", "delete_entity", "edit_text"} /\ last.pre[dxf_path] # <<>>
  THEN last.pre[dxf_path][1]
  ELSE fs[dxf_path][1]

\* ezdxf.readfile(Path(dxf_path)): the whole persisted document
readfile(fs, dxf_path) == fs[dxf_path][1]

\* doc.saveas(out): the whole in-memory document replaces the file at out
saveas(fs, out, doc) == [fs EXCEPT ![out] = <<doc>>]

\* handle in doc.entitydb: doc.entitydb[handle] does not raise KeyError
InEntityDb(doc, handle) == \E i \in 1..Len(doc.entities) : doc.entities[i].handle = handle

\* doc.entitydb[handle]
EntityDb(doc, handle) ==
  doc.entities[CHOOSE i \in 1..Len(doc.entities) : doc.entities[i].handle = handle]

\* MText.plain_text(): the content without its inline formatting codes
plain_text(raw) == SelectSeq(raw, LAMBDA ch : ch # FMT)

\* the text an entity shows, as get_entity_info reports it
InfoText(e) ==
  IF e.dxftype = "TEXT" THEN e.text
  ELSE IF e.dxftype = "MTEXT" THEN plain_text(e.text)
  ELSE None

\* mutant of OutOf: the output location is ignored
OutOfSource(dxf_path, output_path) == dxf_path

\* out = Path(output_path) if output_path else Path(dxf_path)
OutOf(dxf_path, output_path) == IF output_path # None THEN output_path ELSE dxf_path

----------------------------------------------------------------------------
(* What each mutation does to the in-memory document *)

\* mutant of ColorLayerDoc: entities that inherit their color are left alone
ColorLayerDocKeepInherit(doc, layer_name, color) ==
  Doc([n \in DOMAIN doc.layers |-> IF n = layer_name THEN color ELSE doc.layers[n]],
      [i \in 1..Len(doc.entities) |->
         IF doc.entities[i].layer = layer_name /\ doc.entities[i].color # BYLAYER
         THEN [doc.entities[i] EXCEPT !.color = color]
         ELSE doc.entities[i]])

\* mutant of ColorLayerDoc: the entities get the color the layer had before
ColorLayerDocOldColor(doc, layer_name, color) ==
  Doc([n \in DOMAIN doc.layers |-> IF n = layer_name THEN color ELSE doc.layers[n]],
      [i \in 1..Len(doc.entities) |->
         IF doc.entities[i].layer = layer_name
         THEN [doc.entities[i] EXCEPT
                 !.color = IF layer_name \in DOMAIN doc.layers
                           THEN doc.layers[layer_name] ELSE color]
         ELSE doc.entities[i]])

\* color_layer, lines 403-413: the layer definition (when there is one) and
\* every entity the query *[layer=="layer_name"] selects get the color
ColorLayerDoc(doc, layer_name, color) ==
  Doc([n \in DOMAIN doc.layers |-> IF n = layer_name THEN color ELSE doc.layers[n]],
      [i \in 1..Len(doc.entities) |->
         IF doc.entities[i].layer = layer_name
         THEN [doc.entities[i] EXCEPT !.color = color]
         ELSE doc.entities[i]])

\* mutant of DestroyDoc: the lookup succeeds but nothing is destroyed
DestroyDocNothing(doc, handle) == doc

\* entity.destroy() followed by the export: the entity is gone
DestroyDoc(doc, handle) ==
  Doc(doc.layers, SelectSeq(doc.entities, LAMBDA e : e.handle # handle))

\* entity.dxf.text = new_text (TEXT), entity.text = new_text (MTEXT)
SetTextDoc(doc, handle, new_text) ==
  Doc(doc.layers,
      [i \in 1..Len(doc.entities) |->
         IF doc.entities[i].handle = handle
         THEN [doc.entities[i] EXCEPT !.text = new_text]
         ELSE doc.entities[i]])

Mutations == {"color_layer", "delete_entity", "edit_text"}

\* no query is waiting to be served
NoRequest == [op |-> "none", args |-> <<>>]

\* the processes that call mutations on one file
Callers == {"A", "B"}

\* a caller that has not entered a mutation: pc is where it stands, read the
\* document it loaded, mem its in-memory document, read_at and wrote the
\* number of writes of the file before its load and up to its own write
Idle ==
  [pc |-> "idle", op |-> "none", args |-> <<>>, read |-> <<>>, mem |-> <<>>,
   read_at |-> 0, wrote |-> 0]

\* no agent object has been constructed
NoAgent == [class |-> "none", messages |-> <<>>, calls |-> 0, requests |-> 0, start |-> 0]

\* the record of a call: its arguments, the files it found, what it raised
\* or returned, the locations it wrote in order, and the mutation last called
\* before it
Call(op, args, raised, ret, writes) ==
  [op |-> op, args |-> args, pre |-> files, raised |-> raised, ret |-> ret,
   writes |-> writes,
   prev |-> IF last.op \in Mutations THEN [op |-> last.op, args |-> last.args]
            ELSE last.prev]

\* mutant of TextKinds: a LINE passes the kind test too
TextKindsAndLine == {"TEXT", "MTEXT", "LINE"}

\* the kinds edit_text accepts
TextKinds == {"TEXT", "MTEXT"}

----------------------------------------------------------------------------
(* Mutation entry points *)

color_layer(dxf_path, layer_name, color, output_path) ==
  /\ budget > 0
  /\ files[dxf_path] # <<>>
  /\ LET doc == readfile(files, dxf_path)
         out == OutOf(dxf_path, output_path)
     IN  /\ files' = saveas(files, out, ColorLayerDoc(doc, layer_name, color))
         /\ last' = Call("color_layer",
                         [dxf_path |-> dxf_path, layer_name |-> layer_name,
                          color |-> color, output_path |-> output_path],
                         "none", out, <<out>>)
  /\ budget' = budget - 1
  /\ UNCHANGED <<request, callers, agent>>

\* mutant of delete_entity: the document is saved before the lookup
delete_entity_save_first(dxf_path, handle, output_path) ==
  /\ budget > 0
  /\ files[dxf_path] # <<>>
  /\ LET doc  == readfile(files, dxf_path)
         out  == OutOf(dxf_path, output_path)
         args == [dxf_path |-> dxf_path, handle |-> handle, output_path |-> output_path]
     IN  IF ~InEntityDb(doc, handle)
         THEN /\ files' = saveas(files, out, doc)
              /\ last' = Call("delete_entity", args, "KeyError", None, <<out>>)
         ELSE /\ files' = saveas(files, out, DestroyDoc(doc, handle))
              /\ last' = Call("delete_entity", args, "none", out, <<out>>)
  /\ budget' = budget - 1
  /\ UNCHANGED <<request, callers, agent>>

delete_entity(dxf_path, handle, output_path) ==
  /\ budget > 0
  /\ files[dxf_path] # <<>>
  /\ LET doc  == readfile(files, dxf_path)
         out  == OutOf(dxf_path, output_path)
         args == [dxf_path |-> dxf_path, handle |-> handle, output_path |-> output_path]
     IN  IF ~InEntityDb(doc, handle)
         THEN /\ files' = files
              /\ last' = Call("delete_entity", args, "KeyError", None, <<>>)
         ELSE /\ files' = saveas(files, out, DestroyDoc(doc, handle))
              /\ last' = Call("delete_entity", args, "none", out, <<out>>)
  /\ budget' = budget - 1
  /\ UNCHANGED <<request, callers, agent>>

edit_text(dxf_path, handle, new_text, output_path) ==
  /\ budget > 0
  /\ files[dxf_path] # <<>>
  /\ LET doc  == readfile(files, dxf_path)
         out  == OutOf(dxf_path, output_path)
         args == [dxf_path |-> dxf_path, handle |-> handle,
                  new_text |-> new_text, output_path |-> output_path]
     IN  IF ~InEntityDb(doc, handle)
         THEN /\ files' = files
              /\ last' = Call("edit_text", args, "KeyError", None, <<>>)
         ELSE LET entity == EntityDb(doc, handle)
                  etype  == entity.dxftype
              IN  IF etype \notin TextKinds
                  THEN /\ files' = files
                       /\ last' = Call("edit_text", args, "TypeError", None, <<>>)
                  ELSE LET old_text == IF etype = "TEXT" THEN entity.text
                                       ELSE plain_text(entity.text)
                       IN  /\ files' = saveas(files, out, SetTextDoc(doc, handle, new_text))
                           /\ last' = Call("edit_text", args, "none",
                                           [success |-> TRUE, handle |-> handle,
                                            old_text |-> old_text, new_text |-> new_text,
                                            output_path |-> out],
                                           <<out>>)
  /\ budget' = budget - 1
  /\ UNCHANGED <<request, callers, agent>>

----------------------------------------------------------------------------
(* Documents the mutation runs start from *)

\* entities of a document: n entities, the i-th with handle HandleOf(i)
EntitySeqs(shapes, n) ==
  { [i \in 1..n |-> Ent(HandleOf(i), f[i].dxftype, f[i].layer, f[i].color, f[i].text, f[i].pts,
                       f[i].geom)] :
      f \in [1..n -> shapes] }

\* a LINE inherits its color or carries its own, a TEXT inherits it, an MTEXT
\* carries its own; the stored text of both text kinds holds a formatting code
ShapeColors(t) == IF t = "LINE" THEN {BYLAYER, 1} ELSE IF t = "TEXT" THEN {BYLAYER} ELSE {1}

MutShapes ==
  UNION { { [dxftype |-> t, layer |-> l, color |-> c,
             text |-> IF t = "LINE" THEN <<>> ELSE <<FMT, "a">>,
             pts |-> IF t = "LINE" THEN <<<<0, 0>>, <<2, 0>>>> ELSE <<<<0, 0>>>>,
             geom |-> NoGeom] :
              l \in LayerNames, c \in ShapeColors(t) } :
          t \in {"LINE", "TEXT", "MTEXT"} }

\* layer tables: WALL is defined; ROOM is defined in some documents only, so
\* entities can sit on a layer the table does not define
MutLayerTables == { [n \in {"WALL"} |-> 1], [n \in LayerNames |-> IF n = "WALL" THEN 1 ELSE 2] }

MutDocs ==
  UNION { { Doc(lt, es) : lt \in MutLayerTables, es \in EntitySeqs(MutShapes, n) } :
            n \in 0..MaxEntities }

InitOf(doc, n, req) ==
  /\ files = [p \in Paths |-> IF p = SrcPath THEN <<doc>> ELSE <<>>]
  /\ last = [op |-> "init", args |-> <<>>, pre |-> files, raised |-> "none",
             ret |-> None, writes |-> <<>>, prev |-> [op |-> "init", args |-> <<>>]]
  /\ budget = n
  /\ request = req
  /\ callers = [c \in Callers |-> Idle]
  /\ agent = NoAgent

Init == \E doc \in MutDocs : InitOf(doc, MaxMutations, NoRequest)

Next ==
  \/ \E l \in LayerNames \cup {NoSuchLayer}, c \in LayerColors, o \in {None, OutPath} :
       color_layer(SrcPath, l, c, o)
  \/ \E h \in Handles, o \in {None, OutPath} : delete_entity(SrcPath, h, o)
  \/ \E h \in Handles, t \in Texts, o \in {None, OutPath} : edit_text(SrcPath, h, t, o)

Spec == Init /\ [][Next]_vars

\* runs of in-place color_layer calls only, MaxCalls calls long
InitTwice == \E doc \in MutDocs : InitOf(doc, MaxCalls, NoRequest)

NextTwice ==
  \E l \in LayerNames \cup {NoSuchLayer}, c \in LayerColors : color_layer(SrcPath, l, c, None)

SpecTwice == InitTwice /\ [][NextTwice]_vars

----------------------------------------------------------------------------
(* Centers and the spatial queries of operations/spatial.py *)

\* Python None as a center: the empty tuple, which `not center` also rejects
NoCenter == <<>>

RECURSIVE SumX(_), SumY(_)

SumX(points) == IF points = <<>> THEN 0 ELSE points[1][1] + SumX(Tail(points))

SumY(points) == IF points = <<>> THEN 0 ELSE points[1][2] + SumY(Tail(points))

\* _get_center_from_entity: <<nx, ny, den>> is the point (nx/den, ny/den)
Center(entity) ==
  LET etype == entity.dxftype
      pts   == entity.pts
  IN  IF etype \in {"TEXT", "MTEXT"} THEN <<pts[1][1], pts[1][2], 1>>
      ELSE IF etype = "LWPOLYLINE" /\ pts # <<>>
           THEN <<SumX(pts), SumY(pts), Len(pts)>>
      ELSE IF etype = "LINE" THEN <<pts[1][1] + pts[2][1], pts[1][2] + pts[2][2], 2>>
      ELSE IF etype = "CIRCLE" THEN <<pts[1][1], pts[1][2], 1>>
      ELSE NoCenter

\* _extract_entity_info
ExtractEntityInfo(entity) ==
  [handle |-> entity.handle, dxftype |-> entity.dxftype, layer |-> entity.layer,
   color |-> entity.color]

\* msp.query(query): the modelspace entities, in order, that the query string
\* built from layer_pattern and entity_type selects
Query(doc, layer_pattern, entity_type) ==
  SelectSeq(doc.entities,
            LAMBDA e :
              IF layer_pattern # None /\ entity_type # None
              THEN e.dxftype = entity_type /\ e.layer = layer_pattern
              ELSE IF entity_type # None THEN e.dxftype = entity_type
              ELSE IF layer_pattern # None THEN e.layer = layer_pattern
              ELSE TRUE)

\* a float argument that holds the whole number n
Whole(n) == <<n, 1>>

\* a <= b for two numbers <<num, den>> with den > 0
Leq(a, b) == a[1] * b[2] <= b[1] * a[2]

\* a < b
Less(a, b) == a[1] * b[2] < b[1] * a[2]

\* the coordinates cx, cy of a center
CX(center) == <<center[1], center[3]>>

CY(center) == <<center[2], center[3]>>

\* mutant of InRegion: the edges of the rectangle are left out
InRegionOpen(center, xmin, ymin, xmax, ymax) ==
  /\ Less(xmin, CX(center)) /\ Less(CX(center), xmax)
  /\ Less(ymin, CY(center)) /\ Less(CY(center), ymax)

\* xmin <= cx <= xmax and ymin <= cy <= ymax
InRegion(center, xmin, ymin, xmax, ymax) ==
  /\ Leq(xmin, CX(center)) /\ Leq(CX(center), xmax)
  /\ Leq(ymin, CY(center)) /\ Leq(CY(center), ymax)

\* Vec2.distance, squared, from a center to the point target = <<nx, ny, den>>:
\* <<num, den>> is the squared distance num/den
DistanceSq(center, target) ==
  <<(center[1] * target[3] - target[1] * center[3])
      * (center[1] * target[3] - target[1] * center[3])
      + (center[2] * target[3] - target[2] * center[3])
          * (center[2] * target[3] - target[2] * center[3]),
    center[3] * center[3] * target[3] * target[3]>>

\* d1 <= d2 for two squared distances
DistLeq(d1, d2) == d1[1] * d2[2] <= d2[1] * d1[2]

\* distance <= radius
WithinRadius(d, radius) == radius >= 0 /\ d[1] <= radius * radius * d[2]

RECURSIVE RegionLoop(_, _, _, _, _, _)

\* the loop of find_entities_in_region over the queried entities
RegionLoop(entities, xmin, ymin, xmax, ymax, results) ==
  IF entities = <<>> THEN results
  ELSE LET entity == Head(entities)
           center == Center(entity)
       IN  IF center = NoCenter
           THEN RegionLoop(Tail(entities), xmin, ymin, xmax, ymax, results)
           ELSE IF InRegion(center, xmin, ymin, xmax, ymax)
           THEN RegionLoop(Tail(entities), xmin, ymin, xmax, ymax,
                           Append(results,
                                  [info |-> ExtractEntityInfo(entity), center |-> center]))
           ELSE RegionLoop(Tail(entities), xmin, ymin, xmax, ymax, results)

RECURSIVE NearLoop(_, _, _, _)

\* the loop of find_entities_near_point over the queried entities
NearLoop(entities, target, radius, results) ==
  IF entities = <<>> THEN results
  ELSE LET entity == Head(entities)
           center == Center(entity)
       IN  IF center = NoCenter
           THEN NearLoop(Tail(entities), target, radius, results)
           ELSE LET distance == DistanceSq(center, target)
                IN  IF WithinRadius(distance, radius)
                    THEN NearLoop(Tail(entities), target, radius,
                                  Append(results,
                                         [info |-> ExtractEntityInfo(entity),
                                          distance |-> distance, center |-> center]))
                    ELSE NearLoop(Tail(entities), target, radius, results)

RECURSIVE InsertBeforeTies(_, _)

\* mutant of InsertByDistance: an item goes in front of the items at its distance
InsertBeforeTies(sorted, item) ==
  IF sorted = <<>> THEN <<item>>
  ELSE IF DistLeq(item.distance, Head(sorted).distance)
       THEN <<item>> \o sorted
       ELSE <<Head(sorted)>> \o InsertBeforeTies(Tail(sorted), item)

RECURSIVE InsertByDistance(_, _)

\* one item placed behind every item that is not farther than it
InsertByDistance(sorted, item) ==
  IF sorted = <<>> THEN <<item>>
  ELSE IF DistLeq(Head(sorted).distance, item.distance)
       THEN <<Head(sorted)>> \o InsertByDistance(Tail(sorted), item)
       ELSE <<item>> \o sorted

RECURSIVE SortByDistance(_, _)

\* results.sort(key=lambda x: x['distance']): list.sort is stable
SortByDistance(results, sorted) ==
  IF results = <<>> THEN sorted
  ELSE SortByDistance(Tail(results), InsertByDistance(sorted, Head(results)))

RegionArgs(dxf_path, xmin, ymin, xmax, ymax, layer_pattern, entity_type) ==
  [dxf_path |-> dxf_path, xmin |-> xmin, ymin |-> ymin, xmax |-> xmax, ymax |-> ymax,
   layer_pattern |-> layer_pattern, entity_type |-> entity_type]

NearArgs(dxf_path, x, y, radius, layer_pattern, entity_type) ==
  [dxf_path |-> dxf_path, x |-> x, y |-> y, radius |-> radius,
   layer_pattern |-> layer_pattern, entity_type |-> entity_type]

\* a caller's query, waiting to be served
Requested(op, args) == request = [op |-> op, args |-> args]

\* the result of find_entities_in_region on the files fs; the bounds are
\* numbers <<num, den>>
FindEntitiesInRegion(fs, dxf_path, xmin, ymin, xmax, ymax, layer_pattern, entity_type) ==
  RegionLoop(Query(readfile(fs, dxf_path), layer_pattern, entity_type),
             xmin, ymin, xmax, ymax, <<>>)

\* the result of find_entities_near_point on the files fs; target is the
\* point (x, y) as <<nx, ny, den>>
FindEntitiesNearPoint(fs, dxf_path, target, radius, layer_pattern, entity_type) ==
  SortByDistance(NearLoop(Query(readfile(fs, dxf_path), layer_pattern, entity_type),
                          target, radius, <<>>),
                 <<>>)

find_entities_in_region(dxf_path, xmin, ymin, xmax, ymax, layer_pattern, entity_type) ==
  /\ Requested("find_entities_in_region",
               RegionArgs(dxf_path, xmin, ymin, xmax, ymax, layer_pattern, entity_type))
  /\ files[dxf_path] # <<>>
  /\ last' = Call("find_entities_in_region", request.args, "none",
                  FindEntitiesInRegion(files, dxf_path, Whole(xmin), Whole(ymin),
                                       Whole(xmax), Whole(ymax),
                                       layer_pattern, entity_type),
                  <<>>)
  /\ request' = NoRequest
  /\ UNCHANGED <<files, budget, callers, agent>>

find_entities_near_point(dxf_path, x, y, radius, layer_pattern, entity_type) ==
  /\ Requested("find_entities_near_point",
               NearArgs(dxf_path, x, y, radius, layer_pattern, entity_type))
  /\ files[dxf_path] # <<>>
  /\ last' = Call("find_entities_near_point", request.args, "none",
                  FindEntitiesNearPoint(files, dxf_path, <<x, y, 1>>, radius,
                                        layer_pattern, entity_type),
                  <<>>)
  /\ request' = NoRequest
  /\ UNCHANGED <<files, budget, callers, agent>>

----------------------------------------------------------------------------
(* Entry points that take entity handles: operations/spatial.py *)

\* get_entity_center: None, here NoCenter, for a handle that is not in
\* doc.entitydb
GetEntityCenter(fs, dxf_path, handle) ==
  LET doc == readfile(fs, dxf_path)
  IN  IF ~InEntityDb(doc, handle) THEN NoCenter ELSE Center(EntityDb(doc, handle))

\* min(xs) and max(xs) of the coordinate k of the points
MinCoord(points, k) ==
  CHOOSE m \in {points[i][k] : i \in DOMAIN points} :
    \A i \in DOMAIN points : m <= points[i][k]

MaxCoord(points, k) ==
  CHOOSE m \in {points[i][k] : i \in DOMAIN points} :
    \A i \in DOMAIN points : points[i][k] <= m

\* the dict get_entity_bounds returns for the extents of the points
BoundsDict(points) ==
  LET xmin == MinCoord(points, 1)
      xmax == MaxCoord(points, 1)
      ymin == MinCoord(points, 2)
      ymax == MaxCoord(points, 2)
  IN  [xmin |-> xmin, ymin |-> ymin, xmax |-> xmax, ymax |-> ymax,
       width |-> xmax - xmin, height |-> ymax - ymin,
       center_x |-> <<xmin + xmax, 2>>, center_y |-> <<ymin + ymax, 2>>]

\* get_entity_bounds: <<>> is None, <<dict>> a returned dict
GetEntityBounds(fs, dxf_path, handle) ==
  LET doc == readfile(fs, dxf_path)
  IN  IF ~InEntityDb(doc, handle) THEN <<>>
      ELSE LET entity == EntityDb(doc, handle)
               etype  == entity.dxftype
           IN  IF etype = "LWPOLYLINE" /\ entity.pts # <<>> THEN <<BoundsDict(entity.pts)>>
               ELSE IF etype = "LINE" THEN <<BoundsDict(entity.pts)>>
               ELSE <<>>

\* mutant of CenterDistanceSq: a negative dx counts as zero
CenterDistanceSqOneSided(center1, center2) ==
  LET dx == center2[1] * center1[3] - center1[1] * center2[3]
      dy == center2[2] * center1[3] - center1[2] * center2[3]
  IN  <<(IF dx < 0 THEN 0 ELSE dx * dx) + dy * dy,
        center1[3] * center2[3] * center1[3] * center2[3]>>

\* dx * dx + dy * dy of calculate_distance, the square of what it returns
CenterDistanceSq(center1, center2) ==
  LET dx == center2[1] * center1[3] - center1[1] * center2[3]
      dy == center2[2] * center1[3] - center1[2] * center2[3]
  IN  <<dx * dx + dy * dy, center1[3] * center2[3] * center1[3] * center2[3]>>

\* calculate_distance: <<>> is None
CalculateDistance(fs, dxf_path, handle1, handle2) ==
  LET center1 == GetEntityCenter(fs, dxf_path, handle1)
      center2 == GetEntityCenter(fs, dxf_path, handle2)
  IN  IF center1 = NoCenter \/ center2 = NoCenter THEN <<>>
      ELSE CenterDistanceSq(center1, center2)

\* mutant of ExcludeHandle: nothing is removed
ExcludeHandleNever(nearby, handle) == nearby

\* [e for e in nearby if e['handle'] != handle]
ExcludeHandle(nearby, handle) == SelectSeq(nearby, LAMBDA e : e.info.handle # handle)

\* find_adjacent_entities
FindAdjacentEntities(fs, dxf_path, handle, max_distance, layer_pattern, entity_type) ==
  LET center == GetEntityCenter(fs, dxf_path, handle)
  IN  IF center = NoCenter THEN <<>>
      ELSE ExcludeHandle(FindEntitiesNearPoint(fs, dxf_path, center, max_distance,
                                               layer_pattern, entity_type),
                         handle)

\* the smaller and the larger of two numbers <<num, den>>
MinOf(a, b) == IF Leq(b, a) THEN b ELSE a

MaxOf(a, b) == IF Leq(a, b) THEN b ELSE a

\* mutant of Plus: the bounding box is not expanded
PlusNothing(a, n) == a

\* a + n for a number a = <<num, den>> and a whole n
Plus(a, n) == <<a[1] + n * a[2], a[2]>>

\* line_vec = p2 - p1 as <<x, y>> over the denominator p1[3] * p2[3]
LineVec(p1, p2) == <<p2[1] * p1[3] - p1[1] * p2[3], p2[2] * p1[3] - p1[2] * p2[3]>>

\* numerator of line_length squared, over (p1[3] * p2[3]) squared
LengthSqNum(p1, p2) ==
  LineVec(p1, p2)[1] * LineVec(p1, p2)[1] + LineVec(p1, p2)[2] * LineVec(p1, p2)[2]

\* v = ec - p1 as <<x, y>> over the denominator ec[3] * p1[3]
VecFrom(p1, ec) == <<ec[1] * p1[3] - p1[1] * ec[3], ec[2] * p1[3] - p1[2] * ec[3]>>

\* numerator of cross = line_vec.x * v.y - line_vec.y * v.x
CrossNum(p1, p2, ec) ==
  LineVec(p1, p2)[1] * VecFrom(p1, ec)[2] - LineVec(p1, p2)[2] * VecFrom(p1, ec)[1]

\* numerator of v.dot(line_vec)
DotNum(p1, p2, ec) ==
  VecFrom(p1, ec)[1] * LineVec(p1, p2)[1] + VecFrom(p1, ec)[2] * LineVec(p1, p2)[2]

\* 1 / 0.001, the inverse of the length under which the references coincide
EpsilonInverse == 1000

\* the least whole number that is not below a / b, for a >= 0 and b > 0
CeilDiv(a, b) == (a + b - 1) \div b

\* line_length < 0.001, that is LengthSqNum * 1000 * 1000 < (p1[3] * p2[3]) squared
LengthBelowEpsilon(p1, p2) ==
  LengthSqNum(p1, p2)
    < CeilDiv(p1[3] * p2[3] * p1[3] * p2[3], EpsilonInverse * EpsilonInverse)

\* mutant of PerpWithin: only centers strictly inside the corridor pass
PerpWithinStrict(p1, p2, ec, max_distance_from_line) ==
  /\ max_distance_from_line > 0
  /\ CrossNum(p1, p2, ec) * CrossNum(p1, p2, ec)
       < max_distance_from_line * max_distance_from_line
           * LengthSqNum(p1, p2) * ec[3] * ec[3] * p1[3] * p1[3]

\* perp_distance <= max_distance_from_line, with
\* perp_distance = abs(cross) / line_length, both sides squared
PerpWithin(p1, p2, ec, max_distance_from_line) ==
  /\ max_distance_from_line >= 0
  /\ CrossNum(p1, p2, ec) * CrossNum(p1, p2, ec)
       <= max_distance_from_line * max_distance_from_line
            * LengthSqNum(p1, p2) * ec[3] * ec[3] * p1[3] * p1[3]

\* 0 <= projection <= line_length, with projection = v.dot(line_vec) / line_length
ProjectionWithin(p1, p2, ec) ==
  /\ 0 <= DotNum(p1, p2, ec)
  /\ DotNum(p1, p2, ec) * p1[3] * p2[3] <= LengthSqNum(p1, p2) * ec[3] * p1[3]

Abs(n) == IF n < 0 THEN -n ELSE n

\* perp_distance = abs(cross) / line_length, as <<n, d, r>> for the number
\* n / (d * sqrt(r))
PerpDistance(p1, p2, ec) ==
  <<Abs(CrossNum(p1, p2, ec)), ec[3] * p1[3], LengthSqNum(p1, p2)>>

\* a <= b for two numbers <<n, d, r>> under the same root r
LeqRoot(a, b) == a[1] * b[2] <= b[1] * a[2]

\* projection, in the same form
Projection(p1, p2, ec) == <<DotNum(p1, p2, ec), ec[3] * p1[3], LengthSqNum(p1, p2)>>

RECURSIVE BetweenLoop(_, _, _, _, _, _, _)

\* the loop of find_entities_between over the candidates
BetweenLoop(candidates, handle1, handle2, p1, p2, max_distance_from_line, results) ==
  IF candidates = <<>> THEN results
  ELSE LET entity_info == Head(candidates)
           ec          == entity_info.center
           rest        == Tail(candidates)
       IN  IF entity_info.info.handle \in {handle1, handle2}
           THEN BetweenLoop(rest, handle1, handle2, p1, p2, max_distance_from_line, results)
           ELSE IF PerpWithin(p1, p2, ec, max_distance_from_line)
                     /\ ProjectionWithin(p1, p2, ec)
           THEN BetweenLoop(rest, handle1, handle2, p1, p2, max_distance_from_line,
                            Append(results,
                                   [info |-> entity_info.info, center |-> ec,
                                    distance_from_centerline |-> PerpDistance(p1, p2, ec),
                                    projection_along_line |-> Projection(p1, p2, ec)]))
           ELSE BetweenLoop(rest, handle1, handle2, p1, p2, max_distance_from_line, results)

RECURSIVE InsertByCenterline(_, _)

\* one item placed behind every item that is not farther from the centerline
InsertByCenterline(sorted, item) ==
  IF sorted = <<>> THEN <<item>>
  ELSE IF LeqRoot(Head(sorted).distance_from_centerline, item.distance_from_centerline)
       THEN <<Head(sorted)>> \o InsertByCenterline(Tail(sorted), item)
       ELSE <<item>> \o sorted

RECURSIVE SortByCenterline(_, _)

\* results.sort(key=lambda x: x['distance_from_centerline'])
SortByCenterline(results, sorted) ==
  IF results = <<>> THEN sorted
  ELSE SortByCenterline(Tail(results), InsertByCenterline(sorted, Head(results)))

\* find_entities_between
FindEntitiesBetween(fs, dxf_path, handle1, handle2, layer_pattern, max_distance_from_line) ==
  LET p1 == GetEntityCenter(fs, dxf_path, handle1)
      p2 == GetEntityCenter(fs, dxf_path, handle2)
  IN  IF p1 = NoCenter \/ p2 = NoCenter THEN <<>>
      ELSE LET xmin == Plus(MinOf(CX(p1), CX(p2)), -max_distance_from_line)
               xmax == Plus(MaxOf(CX(p1), CX(p2)), max_distance_from_line)
               ymin == Plus(MinOf(CY(p1), CY(p2)), -max_distance_from_line)
               ymax == Plus(MaxOf(CY(p1), CY(p2)), max_distance_from_line)
               candidates == FindEntitiesInRegion(fs, dxf_path, xmin, ymin, xmax, ymax,
                                                  layer_pattern, None)
           IN  IF LengthBelowEpsilon(p1, p2) THEN <<>>
               ELSE SortByCenterline(BetweenLoop(candidates, handle1, handle2, p1, p2,
                                                 max_distance_from_line, <<>>),
                                     <<>>)

BetweenArgs(dxf_path, handle1, handle2, layer_pattern, max_distance_from_line) ==
  [dxf_path |-> dxf_path, handle1 |-> handle1, handle2 |-> handle2,
   layer_pattern |-> layer_pattern, max_distance_from_line |-> max_distance_from_line]

HandleArgs(dxf_path, handle) == [dxf_path |-> dxf_path, handle |-> handle]

DistanceArgs(dxf_path, handle1, handle2) ==
  [dxf_path |-> dxf_path, handle1 |-> handle1, handle2 |-> handle2]

AdjacentArgs(dxf_path, handle, max_distance, layer_pattern, entity_type) ==
  [dxf_path |-> dxf_path, handle |-> handle, max_distance |-> max_distance,
   layer_pattern |-> layer_pattern, entity_type |-> entity_type]

\* a read-only call: it answers the pending request and writes nothing
Answer(op, ret) ==
  /\ last' = Call(op, request.args, "none", ret, <<>>)
  /\ request' = NoRequest
  /\ UNCHANGED <<files, budget, callers, agent>>

\* mutant of get_entity_center: the KeyError of doc.entitydb[handle] is not
\* caught
get_entity_center_raising(dxf_path, handle) ==
  /\ Requested("get_entity_center", HandleArgs(dxf_path, handle))
  /\ files[dxf_path] # <<>>
  /\ IF ~InEntityDb(readfile(files, dxf_path), handle)
     THEN /\ last' = Call("get_entity_center", request.args, "KeyError", None, <<>>)
          /\ request' = NoRequest
          /\ UNCHANGED <<files, budget, callers, agent>>
     ELSE Answer("get_entity_center", GetEntityCenter(files, dxf_path, handle))

get_entity_center(dxf_path, handle) ==
  /\ Requested("get_entity_center", HandleArgs(dxf_path, handle))
  /\ files[dxf_path] # <<>>
  /\ Answer("get_entity_center", GetEntityCenter(files, dxf_path, handle))

get_entity_bounds(dxf_path, handle) ==
  /\ Requested("get_entity_bounds", HandleArgs(dxf_path, handle))
  /\ files[dxf_path] # <<>>
  /\ Answer("get_entity_bounds", GetEntityBounds(files, dxf_path, handle))

calculate_distance(dxf_path, handle1, handle2) ==
  /\ Requested("calculate_distance", DistanceArgs(dxf_path, handle1, handle2))
  /\ files[dxf_path] # <<>>
  /\ Answer("calculate_distance", CalculateDistance(files, dxf_path, handle1, handle2))

find_adjacent_entities(dxf_path, handle, max_distance, layer_pattern, entity_type) ==
  /\ Requested("find_adjacent_entities",
               AdjacentArgs(dxf_path, handle, max_distance, layer_pattern, entity_type))
  /\ files[dxf_path] # <<>>
  /\ Answer("find_adjacent_entities",
            FindAdjacentEntities(files, dxf_path, handle, max_distance,
                                 layer_pattern, entity_type))

find_entities_between(dxf_path, handle1, handle2, layer_pattern, max_distance_from_line) ==
  /\ Requested("find_entities_between",
               BetweenArgs(dxf_path, handle1, handle2, layer_pattern,
                           max_distance_from_line))
  /\ files[dxf_path] # <<>>
  /\ Answer("find_entities_between",
            FindEntitiesBetween(files, dxf_path, handle1, handle2, layer_pattern,
                                max_distance_from_line))

----------------------------------------------------------------------------
(* Areas (operations/core.py) and the polygon measures of inspect/summary.py *)

\* an area: unit * twice / 2 with unit 1 or pi; arcs tells that the area
\* follows the arc segments of the path, whose contribution comes on top of
\* the straight-edge value twice / 2
Area(twice, unit, arcs) == [twice |-> twice, unit |-> unit, arcs |-> arcs]

\* Python None where an area is expected
NoArea == <<>>

\* the shoelace loop: s += x1 * y2 - x2 * y1 over the edges from points[i]
\* to points[(i + 1) % n]
RECURSIVE ShoelaceLoop(_, _, _)
ShoelaceLoop(points, i, s) ==
  IF i > Len(points) THEN s
  ELSE LET p1 == points[i]
           p2 == points[(i % Len(points)) + 1]
       IN  ShoelaceLoop(points, i + 1, s + (p1[1] * p2[2] - p2[1] * p1[2]))

\* a = abs(s) / 2.0 of the vertices alone; bulges are not read
ShoelaceArea(points) == <<Area(Abs(ShoelaceLoop(points, 1, 0)), "1", FALSE)>>

\* e.get_area() of an ezdxf whose LWPolyline offers it: the area of the
\* closed path, arc segments included.  A path of fewer than three vertices
\* without arcs is no polygon: the area function of ezdxf raises ValueError
\* for it, which the except clause turns into None.
LibraryArea(e) ==
  IF Len(e.pts) < 3 /\ ~e.geom.bulge THEN NoArea
  ELSE <<Area(Abs(ShoelaceLoop(e.pts, 1, 0)), "1", e.geom.bulge)>>

\* mutant of Closed: every polyline is taken as closed
ClosedAlways(e) == TRUE

\* e.closed of an LWPOLYLINE, e.is_closed of a POLYLINE
Closed(e) == e.geom.closed

\* _polyline_area_if_safe; a POLYLINE is a 2D polyline here, never a mesh
PolylineAreaIfSafe(e) ==
  IF e.dxftype = "LWPOLYLINE"
  THEN IF ~Closed(e) THEN NoArea
       ELSE IF e.geom.get_area THEN LibraryArea(e)
       ELSE IF Len(e.pts) < 3 THEN NoArea
       ELSE ShoelaceArea(e.pts)
  ELSE IF e.dxftype = "POLYLINE"
  THEN IF ~Closed(e) THEN NoArea
       ELSE IF Len(e.pts) < 3 THEN NoArea
       ELSE ShoelaceArea(e.pts)
  ELSE NoArea

\* _hatch_area_if_safe: the attribute "area" of the entity object, if any
HatchAreaIfSafe(e) ==
  IF e.dxftype # "HATCH" THEN NoArea
  ELSE IF e.geom.area = <<>> THEN NoArea
  ELSE <<Area(2 * e.geom.area[1], "1", FALSE)>>

\* get_area: None for a handle that is not in doc.entitydb and for a kind
\* without area; math.pi * r * r for a circle
GetArea(fs, dxf_path, handle) ==
  LET doc == readfile(fs, dxf_path)
  IN  IF ~InEntityDb(doc, handle) THEN NoArea
      ELSE LET entity == EntityDb(doc, handle)
           IN  IF entity.dxftype \in {"LWPOLYLINE", "POLYLINE"}
               THEN PolylineAreaIfSafe(entity)
               ELSE IF entity.dxftype = "HATCH" THEN HatchAreaIfSafe(entity)
               ELSE IF entity.dxftype = "CIRCLE"
               THEN <<Area(2 * entity.geom.radius * entity.geom.radius, "pi", FALSE)>>
               ELSE NoArea

\* the type-specific part of the record of get_entity_info
InfoOfKind(entity) ==
  IF entity.dxftype = "LINE"
  THEN [start |-> entity.pts[1], end |-> entity.pts[2]]
  ELSE IF entity.dxftype \in {"LWPOLYLINE", "POLYLINE"}
  THEN [is_closed |-> entity.geom.closed, area |-> PolylineAreaIfSafe(entity)]
  ELSE IF entity.dxftype = "CIRCLE"
  THEN [center |-> entity.pts[1], radius |-> entity.geom.radius]
  ELSE IF entity.dxftype \in {"TEXT", "MTEXT"}
  THEN [text |-> InfoText(entity), insert |-> entity.pts[1]]
  ELSE <<>>

\* get_entity_info: None, here <<>>, for a handle that is not in
\* doc.entitydb; otherwise <<info>> (the linetype is not modelled)
GetEntityInfo(fs, dxf_path, handle) ==
  LET doc == readfile(fs, dxf_path)
  IN  IF ~InEntityDb(doc, handle) THEN <<>>
      ELSE LET entity == EntityDb(doc, handle)
           IN  <<[handle |-> entity.handle, dxftype |-> entity.dxftype,
                  layer |-> entity.layer, color |-> entity.color,
                  kind |-> InfoOfKind(entity)]>>

\* mutant of PolygonPerimeter: the closing edge is left out
PolygonPerimeterOpen(pts) ==
  [i \in 1..(IF Len(pts) = 0 THEN 0 ELSE Len(pts) - 1) |->
     (pts[i + 1][1] - pts[i][1]) * (pts[i + 1][1] - pts[i][1])
     + (pts[i + 1][2] - pts[i][2]) * (pts[i + 1][2] - pts[i][2])]

\* polygon_perimeter: the sum, over i in range(n), of the magnitude of
\* pts[(i + 1) % n] - pts[i].  The sum is carried as the sequence of the
\* squared magnitudes of its terms.
PolygonPerimeter(pts) ==
  [i \in 1..Len(pts) |->
     LET a == pts[i]
         b == pts[(i % Len(pts)) + 1]
     IN  (b[1] - a[1]) * (b[1] - a[1]) + (b[2] - a[2]) * (b[2] - a[2])]

\* the loop of polygon_centroid_xy: a2, cx and cy after the edges i..n
RECURSIVE CentroidLoop(_, _, _)
CentroidLoop(pts, i, acc) ==
  IF i > Len(pts) THEN acc
  ELSE LET a == pts[i]
           b == pts[(i % Len(pts)) + 1]
           cross == a[1] * b[2] - b[1] * a[2]
       IN  CentroidLoop(pts, i + 1,
                        [a2 |-> acc.a2 + cross,
                         cx |-> acc.cx + (a[1] + b[1]) * cross,
                         cy |-> acc.cy + (a[2] + b[2]) * cross])

\* mutant of CentroidOf: the sums are divided by the unsigned area
CentroidOfUnsigned(sums) == <<sums.cx, sums.cy, 3 * Abs(sums.a2)>>

\* cx /= 3 * a2, cy /= 3 * a2: the point <<nx, ny, den>>
CentroidOf(sums) == <<sums.cx, sums.cy, 3 * sums.a2>>

\* polygon_centroid_xy: None, here NoCenter, for abs(a2) < 1e-12, which is
\* a2 = 0 on integer coordinates
PolygonCentroidXY(pts) ==
  LET sums == CentroidLoop(pts, 1, [a2 |-> 0, cx |-> 0, cy |-> 0])
  IN  IF sums.a2 = 0 THEN NoCenter ELSE CentroidOf(sums)

PointsArgs(pts) == [pts |-> pts]

get_area(dxf_path, handle) ==
  /\ Requested("get_area", HandleArgs(dxf_path, handle))
  /\ files[dxf_path] # <<>>
  /\ Answer("get_area", GetArea(files, dxf_path, handle))

get_entity_info(dxf_path, handle) ==
  /\ Requested("get_entity_info", HandleArgs(dxf_path, handle))
  /\ files[dxf_path] # <<>>
  /\ Answer("get_entity_info", GetEntityInfo(files, dxf_path, handle))

polygon_perimeter(pts) ==
  /\ Requested("polygon_perimeter", PointsArgs(pts))
  /\ Answer("polygon_perimeter", PolygonPerimeter(pts))

polygon_centroid_xy(pts) ==
  /\ Requested("polygon_centroid_xy", PointsArgs(pts))
  /\ Answer("polygon_centroid_xy", PolygonCentroidXY(pts))

----------------------------------------------------------------------------
(* The summary pass: inspect/summary.py *)

\* characters of a text besides letters: blank, tab, and the NUL character
SPACE == " "

TAB == "\t"

NUL == "NUL"

\* what \s matches and strip() removes
Whitespace == {SPACE, TAB}

\* re.sub(r"\s+", " ", s): every maximal run of whitespace becomes one blank
RECURSIVE CollapseRuns(_, _, _)
CollapseRuns(s, i, out) ==
  IF i > Len(s) THEN out
  ELSE IF s[i] \notin Whitespace THEN CollapseRuns(s, i + 1, Append(out, s[i]))
  ELSE IF i > 1 /\ s[i - 1] \in Whitespace THEN CollapseRuns(s, i + 1, out)
  ELSE CollapseRuns(s, i + 1, Append(out, SPACE))

\* str.strip(): leading and trailing whitespace removed
RECURSIVE Strip(_)
Strip(s) ==
  IF s = <<>> THEN s
  ELSE IF s[1] \in Whitespace THEN Strip(Tail(s))
  ELSE IF s[Len(s)] \in Whitespace THEN Strip(SubSeq(s, 1, Len(s) - 1))
  ELSE s

\* mutant of clean_text: whitespace is collapsed before the NUL characters
\* are removed
clean_text_nul_last(s) ==
  Strip(SelectSeq(CollapseRuns(s, 1, <<>>), LAMBDA ch : ch # NUL))

\* clean_text: s.replace("\x00", ""), then re.sub(r"\s+", " ", s).strip()
clean_text(s) ==
  Strip(CollapseRuns(SelectSeq(s, LAMBDA ch : ch # NUL), 1, <<>>))

\* entity_layer: None when e.dxf.layer raises
entity_layer(e) == IF e.geom.fails = "layer" THEN None ELSE e.layer

\* extract_text_entity: None, here <<>>, for another kind, for a text that is
\* empty once cleaned, and when an attribute access raises; otherwise <<item>>
extract_text_entity(e) ==
  IF e.dxftype \notin {"TEXT", "MTEXT"} \/ e.geom.fails = "text" THEN <<>>
  ELSE LET content == clean_text(IF e.dxftype = "MTEXT" THEN plain_text(e.text)
                                 ELSE e.text)
       IN  IF content = <<>> THEN <<>>
           ELSE <<[handle |-> e.handle, dxftype |-> e.dxftype,
                   layer |-> entity_layer(e), color |-> e.color,
                   text |-> content, insert |-> e.pts[1]]>>

\* polyline_is_closed: None, here FALSE as `if closed` reads it, when the
\* attribute access raises
polyline_is_closed(e) ==
  IF e.geom.fails = "closed" THEN FALSE ELSE e.geom.closed

\* lwpolyline_has_bulges: True also when get_points raises
lwpolyline_has_bulges(e) ==
  IF e.dxftype # "LWPOLYLINE" THEN FALSE
  ELSE IF e.geom.fails = "vertices" THEN TRUE
  ELSE e.geom.bulge

\* polyline_vertices_xy_if_safe: None, here <<>>, or <<pts>>
polyline_vertices_xy_if_safe(e) ==
  IF e.dxftype = "LWPOLYLINE"
  THEN IF ~e.geom.closed \/ e.geom.fails = "closed" THEN <<>>
       ELSE IF lwpolyline_has_bulges(e) THEN <<>>
       ELSE IF Len(e.pts) >= 3 THEN <<e.pts>> ELSE <<>>
  ELSE IF e.dxftype = "POLYLINE"
  THEN IF ~e.geom.closed \/ e.geom.fails \in {"closed", "vertices"} THEN <<>>
       ELSE IF Len(e.pts) >= 3 THEN <<e.pts>> ELSE <<>>
  ELSE <<>>

\* polyline_area_if_safe of inspect/summary.py: e.get_area() is called
\* without asking whether the entity object offers it; the AttributeError of
\* an ezdxf without it ends in the except clause
polyline_area_if_safe(e) ==
  IF e.geom.fails \in {"closed", "vertices"} THEN NoArea
  ELSE IF e.dxftype = "LWPOLYLINE"
  THEN IF ~e.geom.closed THEN NoArea
       ELSE IF e.geom.get_area THEN LibraryArea(e)
       ELSE NoArea
  ELSE IF e.dxftype = "POLYLINE"
  THEN IF ~e.geom.closed THEN NoArea
       ELSE IF Len(e.pts) < 3 THEN NoArea
       ELSE ShoelaceArea(e.pts)
  ELSE NoArea

\* every point of the entities
RECURSIVE AllPoints(_)
AllPoints(entities) ==
  IF entities = <<>> THEN <<>> ELSE entities[1].pts \o AllPoints(Tail(entities))

\* safe_bbox_for_entities: None, here <<>>, when no entity has a dxftype,
\* when bbox_extents raises or when it finds no extents; otherwise
\* <<[xmin, ymin, xmax, ymax]>>
safe_bbox_for_entities(entities) ==
  LET ents == SelectSeq(entities, LAMBDA e : e.geom.fails # "dxftype")
      pts  == AllPoints(ents)
  IN  IF ents = <<>> THEN <<>>
      ELSE IF \E i \in 1..Len(ents) : ents[i].geom.fails = "bbox" THEN <<>>
      ELSE IF pts = <<>> THEN <<>>
      ELSE <<[xmin |-> MinCoord(pts, 1), ymin |-> MinCoord(pts, 2),
              xmax |-> MaxCoord(pts, 1), ymax |-> MaxCoord(pts, 2)]>>

\* bump(d, k): d[k] = d.get(k, 0) + 1
bump(d, k) ==
  IF k \in DOMAIN d THEN [d EXCEPT ![k] = @ + 1] ELSE (k :> 1) @@ d

\* a dict without keys
EmptyDict == [k \in {} |-> 0]

\* the entry of a closed polyline in the boundary candidates
PolylineCandidate(e, lname, layer) ==
  LET pts == polyline_vertices_xy_if_safe(e)
  IN  [handle |-> e.handle, dxftype |-> e.dxftype, layout |-> lname, layer |-> layer,
       color |-> e.color, is_closed |-> TRUE,
       vertex_count |-> IF pts # <<>> THEN <<Len(pts[1])>> ELSE <<>>,
       area |-> polyline_area_if_safe(e),
       perimeter |-> IF pts # <<>> THEN <<PolygonPerimeter(pts[1])>> ELSE <<>>,
       centroid_xy |-> IF pts # <<>> THEN PolygonCentroidXY(pts[1]) ELSE NoCenter,
       bbox |-> safe_bbox_for_entities(<<e>>)]

\* the entry of a hatch in the boundary candidates
HatchCandidate(e, lname, layer) ==
  [handle |-> e.handle, dxftype |-> "HATCH", layout |-> lname, layer |-> layer,
   color |-> e.color, area |-> HatchAreaIfSafe(e), bbox |-> safe_bbox_for_entities(<<e>>)]

\* the body of the loop over the entities of a layout, for an entity whose
\* dxftype() answered: histograms, text index, boundary candidates
SummaryStep(acc, e, lname, max_text_items, max_boundary_candidates) ==
  LET t     == e.dxftype
      layer == IF entity_layer(e) = None THEN "UNKNOWN" ELSE entity_layer(e)
      by_layer == IF layer \in DOMAIN acc.entity_counts_by_layer
                  THEN acc.entity_counts_by_layer
                  ELSE (layer :> EmptyDict) @@ acc.entity_counts_by_layer
      item  == extract_text_entity(e)
  IN  [entity_counts_by_type |-> bump(acc.entity_counts_by_type, t),
       entity_counts_by_layer |-> [by_layer EXCEPT ![layer] = bump(@, t)],
       text_items |->
         IF t \in {"TEXT", "MTEXT"} /\ Len(acc.text_items) < max_text_items
            /\ item # <<>>
         THEN Append(acc.text_items, [layout |-> lname] @@ item[1])
         ELSE acc.text_items,
       boundary_candidates |->
         IF Len(acc.boundary_candidates) < max_boundary_candidates
         THEN IF t \in {"LWPOLYLINE", "POLYLINE"}
              THEN IF polyline_is_closed(e)
                   THEN Append(acc.boundary_candidates, PolylineCandidate(e, lname, layer))
                   ELSE acc.boundary_candidates
              ELSE IF t = "HATCH"
              THEN Append(acc.boundary_candidates, HatchCandidate(e, lname, layer))
              ELSE acc.boundary_candidates
         ELSE acc.boundary_candidates]

\* mutant of AfterDxftypeFailure: the failure leaves the loop of the layout
AfterDxftypeFailureAbort(entities, i) == Len(entities) + 1

\* `continue` after a failing e.dxftype(): the entity is skipped and the
\* loop goes on with the next entity of the layout.  (The entity object has
\* no usable dxftype; safe_bbox_for_entities leaves such an object out as
\* well, by hasattr.)
AfterDxftypeFailure(entities, i) == i + 1

\* for e in layout: ...
RECURSIVE LayoutLoop(_, _, _, _, _, _)
LayoutLoop(entities, i, acc, lname, max_text_items, max_boundary_candidates) ==
  IF i > Len(entities) THEN acc
  ELSE IF entities[i].geom.fails = "dxftype"
  THEN LayoutLoop(entities, AfterDxftypeFailure(entities, i), acc, lname,
                  max_text_items, max_boundary_candidates)
  ELSE LayoutLoop(entities, i + 1,
                  SummaryStep(acc, entities[i], lname, max_text_items,
                              max_boundary_candidates),
                  lname, max_text_items, max_boundary_candidates)

\* sum(counts.values())
RECURSIVE SumValues(_)
SumValues(d) ==
  IF DOMAIN d = {} THEN 0
  ELSE LET k == CHOOSE x \in DOMAIN d : TRUE
       IN  d[k] + SumValues([x \in DOMAIN d \ {k} |-> d[x]])

\* the layer names of the model in the order of sorted(..., key=str.lower)
LayerOrder == <<"NONE", "ROOM", "UNKNOWN", "WALL">>

\* layers_out: one record per key of entity_counts_by_layer, in sorted
\* order, with the properties of the layer table where the layer is defined
\* (layer_table.get(lname, {"name": lname}))
LayersOut(layer_table, entity_counts_by_layer) ==
  LET names == SelectSeq(LayerOrder, LAMBDA n : n \in DOMAIN entity_counts_by_layer)
  IN  [i \in 1..Len(names) |->
         [name |-> names[i],
          color |-> IF names[i] \in DOMAIN layer_table THEN <<layer_table[names[i]]>>
                    ELSE <<>>,
          entity_counts |-> entity_counts_by_layer[names[i]],
          total_entities |-> SumValues(entity_counts_by_layer[names[i]])]]

\* the layouts summarize_dxf traverses: the modelspace, and the paperspace
\* layout when include_paperspace is set
Layouts(doc, include_paperspace) ==
  <<[name |-> "Model", entities |-> doc.entities]>>
  \o (IF include_paperspace /\ "paper" \in DOMAIN doc
      THEN <<[name |-> "Layout1", entities |-> doc.paper]>>
      ELSE <<>>)

\* for layout in layouts: ...
RECURSIVE LayoutsLoop(_, _, _, _, _)
LayoutsLoop(layouts, j, acc, max_text_items, max_boundary_candidates) ==
  IF j > Len(layouts) THEN acc
  ELSE LayoutsLoop(layouts, j + 1,
                   LayoutLoop(layouts[j].entities, 1, acc, layouts[j].name,
                              max_text_items, max_boundary_candidates),
                   max_text_items, max_boundary_candidates)

\* "truncated": bool(len(items) >= cap)
Truncated(items, cap) == Len(items) >= cap

\* summarize_dxf: the parts of the summary that depend on the entities
SummarizeDxf(fs, dxf_path, include_paperspace, max_text_items, max_boundary_candidates) ==
  LET doc == readfile(fs, dxf_path)
      layouts == Layouts(doc, include_paperspace)
      all_entities == IF Len(layouts) = 1 THEN layouts[1].entities
                      ELSE layouts[1].entities \o layouts[2].entities
      acc == LayoutsLoop(layouts, 1,
                         [entity_counts_by_type |-> EmptyDict,
                          entity_counts_by_layer |-> [k \in {} |-> EmptyDict],
                          text_items |-> <<>>, boundary_candidates |-> <<>>],
                         max_text_items, max_boundary_candidates)
  IN  [drawing |-> [bbox_xy |-> safe_bbox_for_entities(all_entities),
                    layout_names |-> [j \in 1..Len(layouts) |-> layouts[j].name],
                    entity_counts_by_type |-> acc.entity_counts_by_type,
                    total_entities |-> SumValues(acc.entity_counts_by_type)],
       layers |-> LayersOut(doc.layers, acc.entity_counts_by_layer),
       text_index |-> [count |-> Len(acc.text_items),
                       truncated |-> Truncated(acc.text_items, max_text_items),
                       items |-> acc.text_items],
       boundary_candidates |->
         [count |-> Len(acc.boundary_candidates),
          truncated |-> Truncated(acc.boundary_candidates, max_boundary_candidates),
          items |-> acc.boundary_candidates]]

\* the counting loop of list_layers: an entity whose dxftype() raises is
\* skipped
RECURSIVE CountLoop(_, _, _)
CountLoop(entities, i, counts) ==
  IF i > Len(entities) THEN counts
  ELSE IF entities[i].geom.fails = "dxftype" THEN CountLoop(entities, i + 1, counts)
  ELSE LET e     == entities[i]
           layer == IF entity_layer(e) = None THEN "UNKNOWN" ELSE entity_layer(e)
           known == IF layer \in DOMAIN counts THEN counts
                    ELSE (layer :> EmptyDict) @@ counts
       IN  CountLoop(entities, i + 1, [known EXCEPT ![layer] = bump(@, e.dxftype)])

\* list_layers
ListLayers(fs, dxf_path) ==
  LET doc == readfile(fs, dxf_path)
  IN  LayersOut(doc.layers, CountLoop(doc.entities, 1, [k \in {} |-> EmptyDict]))

SummaryArgs(dxf_path, include_paperspace, max_text_items, max_boundary_candidates) ==
  [dxf_path |-> dxf_path, include_paperspace |-> include_paperspace,
   max_text_items |-> max_text_items,
   max_boundary_candidates |-> max_boundary_candidates]

PathArgs(dxf_path) == [dxf_path |-> dxf_path]

summarize_dxf(dxf_path, include_paperspace, max_text_items, max_boundary_candidates) ==
  /\ Requested("summarize_dxf",
               SummaryArgs(dxf_path, include_paperspace, max_text_items,
                           max_boundary_candidates))
  /\ files[dxf_path] # <<>>
  /\ Answer("summarize_dxf",
            SummarizeDxf(files, dxf_path, include_paperspace, max_text_items,
                         max_boundary_candidates))

list_layers(dxf_path) ==
  /\ Requested("list_layers", PathArgs(dxf_path))
  /\ files[dxf_path] # <<>>
  /\ Answer("list_layers", ListLayers(files, dxf_path))

----------------------------------------------------------------------------
(* Documents and arguments of the query runs *)

\* kinds with the points they store: insert, start and end, vertices, center
QueryGeometries ==
  { [dxftype |-> "TEXT", pts |-> <<<<0, 0>>>>],
    [dxftype |-> "TEXT", pts |-> <<<<2, 2>>>>],
    [dxftype |-> "MTEXT", pts |-> <<<<1, 0>>>>],
    [dxftype |-> "CIRCLE", pts |-> <<<<2, 0>>>>],
    [dxftype |-> "LINE", pts |-> <<<<0, 0>>, <<2, 0>>>>],
    [dxftype |-> "LINE", pts |-> <<<<0, 0>>, <<1, 2>>>>],
    [dxftype |-> "LWPOLYLINE", pts |-> <<>>],
    [dxftype |-> "LWPOLYLINE", pts |-> <<<<0, 0>>, <<0, 2>>>>],
    [dxftype |-> "LWPOLYLINE", pts |-> <<<<0, 0>>, <<2, 0>>, <<2, 2>>>>],
    [dxftype |-> "POLYLINE", pts |-> <<<<0, 0>>, <<2, 0>>, <<2, 2>>>>],
    [dxftype |-> "HATCH", pts |-> <<>>] }

\* the layers a geometry is placed on: the filtered kind and a kind without
\* center on either layer, the others on one
QueryLayers(g) == IF g.dxftype \in {"TEXT", "HATCH"} THEN LayerNames ELSE {"WALL"}

QueryShapes ==
  UNION { { [dxftype |-> g.dxftype, layer |-> l, color |-> BYLAYER,
             text |-> IF g.dxftype \in {"TEXT", "MTEXT"} THEN <<"a">> ELSE <<>>,
             pts |-> g.pts,
             geom |-> IF g.dxftype = "CIRCLE" THEN Geom(FALSE, FALSE, 1) ELSE NoGeom] :
              l \in QueryLayers(g) } : g \in QueryGeometries }

QueryDocs ==
  UNION { { Doc([ln \in LayerNames |-> 1], es) : es \in EntitySeqs(QueryShapes, n) } :
            n \in 0..MaxEntities }

LayerPatterns == {None, "WALL"}

EntityTypes == {None, "TEXT"}

XMins == {0, 1}

XMaxs == {1, 2}

YMins == {0, 1}

YMaxs == {2}

PointXs == {0, 1}

PointYs == {0}

Radii == {0, 1, 2}

\* the queries a caller may issue
QueryRequests ==
  { [op |-> "find_entities_in_region", args |-> RegionArgs(SrcPath, xmin, ymin, xmax, ymax, lp, et)] :
      xmin \in XMins, ymin \in YMins, xmax \in XMaxs, ymax \in YMaxs,
      lp \in LayerPatterns, et \in EntityTypes }
  \cup
  { [op |-> "find_entities_near_point", args |-> NearArgs(SrcPath, x, y, radius, lp, et)] :
      x \in PointXs, y \in PointYs, radius \in Radii,
      lp \in LayerPatterns, et \in EntityTypes }

\* a document and one query on it
InitQuery == \E doc \in QueryDocs, req \in QueryRequests : InitOf(doc, 0, req)

NextQuery ==
  \/ \E xmin \in XMins, ymin \in YMins, xmax \in XMaxs, ymax \in YMaxs,
        lp \in LayerPatterns, et \in EntityTypes :
       find_entities_in_region(SrcPath, xmin, ymin, xmax, ymax, lp, et)
  \/ \E x \in PointXs, y \in PointYs, radius \in Radii,
        lp \in LayerPatterns, et \in EntityTypes :
       find_entities_near_point(SrcPath, x, y, radius, lp, et)

SpecQuery == InitQuery /\ [][NextQuery]_vars

----------------------------------------------------------------------------
(* Runs of the entry points that take handles *)

MaxDistances == {0, 2}

\* the calls a caller may issue on the entities of a document
EntityRequests ==
  { [op |-> o, args |-> HandleArgs(SrcPath, h)] :
      o \in {"get_entity_center", "get_entity_bounds"}, h \in Handles }
  \cup
  { [op |-> "calculate_distance", args |-> DistanceArgs(SrcPath, h1, h2)] :
      h1 \in Handles, h2 \in Handles }
  \cup
  { [op |-> "find_adjacent_entities", args |-> AdjacentArgs(SrcPath, h, d, lp, et)] :
      h \in Handles, d \in MaxDistances, lp \in LayerPatterns, et \in EntityTypes }

InitEntity == \E doc \in QueryDocs, req \in EntityRequests : InitOf(doc, 0, req)

NextEntity ==
  \/ \E h \in Handles : get_entity_center(SrcPath, h)
  \/ \E h \in Handles : get_entity_bounds(SrcPath, h)
  \/ \E h1 \in Handles, h2 \in Handles : calculate_distance(SrcPath, h1, h2)
  \/ \E h \in Handles, d \in MaxDistances, lp \in LayerPatterns, et \in EntityTypes :
       find_adjacent_entities(SrcPath, h, d, lp, et)

SpecEntity == InitEntity /\ [][NextEntity]_vars

----------------------------------------------------------------------------
(* Runs of find_entities_between *)

\* two references, a center inside the corridor, one beyond the far end and
\* one on the edge of the corridor on another layer
BetweenShapes ==
  { [dxftype |-> "LINE", layer |-> "WALL", color |-> BYLAYER, text |-> <<>>,
     pts |-> <<<<-10, 0>>, <<10, 0>>>>, geom |-> NoGeom],
    [dxftype |-> "TEXT", layer |-> "WALL", color |-> BYLAYER, text |-> <<"a">>,
     pts |-> <<<<100, 0>>>>, geom |-> NoGeom],
    [dxftype |-> "TEXT", layer |-> "WALL", color |-> BYLAYER, text |-> <<"a">>,
     pts |-> <<<<50, 5>>>>, geom |-> NoGeom],
    [dxftype |-> "TEXT", layer |-> "WALL", color |-> BYLAYER, text |-> <<"a">>,
     pts |-> <<<<120, 0>>>>, geom |-> NoGeom],
    [dxftype |-> "CIRCLE", layer |-> "ROOM", color |-> BYLAYER, text |-> <<>>,
     pts |-> <<<<50, -10>>>>, geom |-> Geom(FALSE, FALSE, 1)] }

\* documents of up to two entities more than MaxEntities: the references and
\* the entities between them
BetweenDocs ==
  UNION { { Doc([ln \in LayerNames |-> 1], es) : es \in EntitySeqs(BetweenShapes, n) } :
            n \in 0..(MaxEntities + 2) }

\* the references are among the first two entities, or do not resolve
ReferenceHandles == {HandleOf(1), HandleOf(2), HandleOf(MaxEntities + 3)}

MaxDistancesFromLine == {10, 4}

InitBetween ==
  \E doc \in BetweenDocs, h1 \in ReferenceHandles, h2 \in ReferenceHandles,
     lp \in LayerPatterns, d \in MaxDistancesFromLine :
    InitOf(doc, 0, [op |-> "find_entities_between",
                    args |-> BetweenArgs(SrcPath, h1, h2, lp, d)])

NextBetween ==
  \E h1 \in ReferenceHandles, h2 \in ReferenceHandles,
     lp \in LayerPatterns, d \in MaxDistancesFromLine :
    find_entities_between(SrcPath, h1, h2, lp, d)

SpecBetween == InitBetween /\ [][NextBetween]_vars

----------------------------------------------------------------------------
(* Runs of the area entry points and of the polygon measures *)

\* vertices of a generated polygon
MaxVertices == 3

GridPoints == {<<0, 0>>, <<2, 0>>, <<2, 2>>, <<0, 2>>}

Reverse(s) == [i \in 1..Len(s) |-> s[Len(s) + 1 - i]]

\* the 10 by 5 rectangle, counter-clockwise
Rectangle == <<<<0, 0>>, <<10, 0>>, <<10, 5>>, <<0, 5>>>>

\* the 10 by 10 square, counter-clockwise
Square == <<<<0, 0>>, <<10, 0>>, <<10, 10>>, <<0, 10>>>>

\* a self-crossing quadrilateral whose two lobes cancel: signed area zero
BowTie == <<<<0, 0>>, <<2, 2>>, <<2, 0>>, <<0, 2>>>>

\* vertex lists: every list of up to MaxVertices grid points, and the
\* quadrilaterals above in both orientations
VertexLists ==
  UNION { [1..n -> GridPoints] : n \in 0..MaxVertices }
  \cup {Rectangle, Reverse(Rectangle), Square, Reverse(Square), BowTie}

\* a segment needs two vertices to be an arc
BulgeFlags(v) == IF Len(v) >= 2 THEN BOOLEAN ELSE {FALSE}

\* polylines of both encodings, open and closed, with and without an arc
\* segment, on an ezdxf with and without LWPolyline.get_area; and one entity
\* of each other kind that get_area and get_entity_info distinguish
AreaShapes ==
  UNION { { [dxftype |-> "LWPOLYLINE", layer |-> "WALL", color |-> BYLAYER,
             text |-> <<>>, pts |-> v,
             geom |-> [Geom(c, b, 0) EXCEPT !.get_area = m]] :
              c \in BOOLEAN, b \in BulgeFlags(v), m \in BOOLEAN } : v \in VertexLists }
  \cup
  UNION { { [dxftype |-> "POLYLINE", layer |-> "WALL", color |-> BYLAYER,
             text |-> <<>>, pts |-> v, geom |-> Geom(c, b, 0)] :
              c \in BOOLEAN, b \in BulgeFlags(v) } : v \in VertexLists }
  \cup
  { [dxftype |-> "CIRCLE", layer |-> "WALL", color |-> 1, text |-> <<>>,
     pts |-> <<<<2, 0>>>>, geom |-> Geom(FALSE, FALSE, 2)],
    [dxftype |-> "HATCH", layer |-> "ROOM", color |-> BYLAYER, text |-> <<>>,
     pts |-> <<>>, geom |-> NoGeom],
    [dxftype |-> "HATCH", layer |-> "ROOM", color |-> BYLAYER, text |-> <<>>,
     pts |-> <<>>, geom |-> [NoGeom EXCEPT !.area = <<6>>]],
    [dxftype |-> "MTEXT", layer |-> "WALL", color |-> BYLAYER, text |-> <<FMT, "b">>,
     pts |-> <<<<0, 2>>>>, geom |-> NoGeom],
    [dxftype |-> "LINE", layer |-> "WALL", color |-> BYLAYER, text |-> <<>>,
     pts |-> <<<<0, 0>>, <<2, 2>>>>, geom |-> NoGeom] }

NoEntities == Doc([ln \in LayerNames |-> 1], <<>>)

\* documents of one entity, and the document without entities
AreaDocs ==
  UNION { { Doc([ln \in LayerNames |-> 1], es) : es \in EntitySeqs(AreaShapes, n) } :
            n \in 0..1 }

AreaHandles == {HandleOf(1), UnknownHandle}

AreaRequests ==
  { [op |-> o, args |-> HandleArgs(SrcPath, h)] :
      o \in {"get_area", "get_entity_info"}, h \in AreaHandles }

PolygonRequests ==
  { [op |-> o, args |-> PointsArgs(v)] :
      o \in {"polygon_perimeter", "polygon_centroid_xy"}, v \in VertexLists }

InitArea ==
  \/ \E doc \in AreaDocs, req \in AreaRequests : InitOf(doc, 0, req)
  \/ \E req \in PolygonRequests : InitOf(NoEntities, 0, req)

NextArea ==
  \/ \E h \in AreaHandles : get_area(SrcPath, h)
  \/ \E h \in AreaHandles : get_entity_info(SrcPath, h)
  \/ \E v \in VertexLists : polygon_perimeter(v)
  \/ \E v \in VertexLists : polygon_centroid_xy(v)

SpecArea == InitArea /\ [][NextArea]_vars

----------------------------------------------------------------------------
(* Runs of a caller that either edits a document or asks one question *)

\* kinds with and without a center rule, among them an LWPOLYLINE without
\* vertices and a HATCH, whose geometry the entry points cannot represent
ReadShapes ==
  { [dxftype |-> "TEXT", layer |-> "WALL", color |-> BYLAYER, text |-> <<"a">>,
     pts |-> <<<<0, 0>>>>, geom |-> NoGeom],
    [dxftype |-> "LINE", layer |-> "WALL", color |-> BYLAYER, text |-> <<>>,
     pts |-> <<<<0, 0>>, <<2, 0>>>>, geom |-> NoGeom],
    [dxftype |-> "LWPOLYLINE", layer |-> "WALL", color |-> BYLAYER, text |-> <<>>,
     pts |-> <<<<0, 0>>, <<2, 0>>, <<2, 2>>>>, geom |-> Geom(TRUE, FALSE, 0)],
    [dxftype |-> "LWPOLYLINE", layer |-> "ROOM", color |-> BYLAYER, text |-> <<>>,
     pts |-> <<>>, geom |-> Geom(TRUE, FALSE, 0)],
    [dxftype |-> "POLYLINE", layer |-> "WALL", color |-> BYLAYER, text |-> <<>>,
     pts |-> <<<<0, 0>>, <<2, 0>>>>, geom |-> Geom(TRUE, FALSE, 0)],
    [dxftype |-> "HATCH", layer |-> "ROOM", color |-> BYLAYER, text |-> <<>>,
     pts |-> <<>>, geom |-> NoGeom] }

ReadDocs ==
  UNION { { Doc([ln \in LayerNames |-> 1], es) : es \in EntitySeqs(ReadShapes, n) } :
            n \in 0..MaxEntities }

\* one call of each read-only entry point
ReadRequests ==
  { [op |-> o, args |-> HandleArgs(SrcPath, h)] :
      o \in {"get_entity_info", "get_area", "get_entity_center", "get_entity_bounds"},
      h \in Handles }
  \cup
  { [op |-> "calculate_distance", args |-> DistanceArgs(SrcPath, h1, h2)] :
      h1 \in Handles, h2 \in Handles }
  \cup
  { [op |-> "find_adjacent_entities", args |-> AdjacentArgs(SrcPath, h, d, lp, None)] :
      h \in Handles, d \in MaxDistances, lp \in LayerPatterns }
  \cup
  { [op |-> "find_entities_between", args |-> BetweenArgs(SrcPath, h1, h2, lp, d)] :
      h1 \in Handles, h2 \in Handles, lp \in LayerPatterns, d \in MaxDistances }
  \cup
  { [op |-> "find_entities_in_region",
     args |-> RegionArgs(SrcPath, xmin, 0, 2, 2, lp, None)] :
      xmin \in XMins, lp \in LayerPatterns }
  \cup
  { [op |-> "find_entities_near_point", args |-> NearArgs(SrcPath, x, 0, radius, lp, None)] :
      x \in PointXs, radius \in Radii, lp \in LayerPatterns }

\* either a document to edit, or a document and one question on it
InitRead ==
  \/ \E doc \in ReadDocs : InitOf(doc, MaxMutations, NoRequest)
  \/ \E doc \in ReadDocs, req \in ReadRequests : InitOf(doc, 0, req)

NextRead ==
  \/ Next
  \/ \E h \in Handles : get_entity_info(SrcPath, h)
  \/ \E h \in Handles : get_area(SrcPath, h)
  \/ \E h \in Handles : get_entity_center(SrcPath, h)
  \/ \E h \in Handles : get_entity_bounds(SrcPath, h)
  \/ \E h1 \in Handles, h2 \in Handles : calculate_distance(SrcPath, h1, h2)
  \/ \E h \in Handles, d \in MaxDistances, lp \in LayerPatterns :
       find_adjacent_entities(SrcPath, h, d, lp, None)
  \/ \E h1 \in Handles, h2 \in Handles, lp \in LayerPatterns, d \in MaxDistances :
       find_entities_between(SrcPath, h1, h2, lp, d)
  \/ \E xmin \in XMins, lp \in LayerPatterns :
       find_entities_in_region(SrcPath, xmin, 0, 2, 2, lp, None)
  \/ \E x \in PointXs, radius \in Radii, lp \in LayerPatterns :
       find_entities_near_point(SrcPath, x, 0, radius, lp, None)

SpecRead == InitRead /\ [][NextRead]_vars

----------------------------------------------------------------------------
(* Runs of summarize_dxf and list_layers *)

\* text labels with clean, blank and untidy contents, polylines of both
\* encodings, a hatch, a line, and entity objects one of whose accesses raises
SummaryShapes ==
  { [dxftype |-> "TEXT", layer |-> "WALL", color |-> BYLAYER, text |-> <<"a">>,
     pts |-> <<<<0, 0>>>>, geom |-> NoGeom],
    [dxftype |-> "TEXT", layer |-> "WALL", color |-> BYLAYER, text |-> <<SPACE, NUL>>,
     pts |-> <<<<0, 2>>>>, geom |-> NoGeom],
    [dxftype |-> "MTEXT", layer |-> "ROOM", color |-> 1,
     text |-> <<FMT, TAB, "a", SPACE, NUL, TAB, "b", NUL, "a", SPACE>>,
     pts |-> <<<<2, 0>>>>, geom |-> NoGeom],
    [dxftype |-> "TEXT", layer |-> "WALL", color |-> BYLAYER, text |-> <<"b">>,
     pts |-> <<<<2, 2>>>>, geom |-> [NoGeom EXCEPT !.fails = "text"]],
    [dxftype |-> "LWPOLYLINE", layer |-> "ROOM", color |-> BYLAYER, text |-> <<>>,
     pts |-> <<<<0, 0>>, <<2, 0>>, <<2, 2>>>>,
     geom |-> [Geom(TRUE, FALSE, 0) EXCEPT !.get_area = TRUE]],
    [dxftype |-> "LWPOLYLINE", layer |-> "ROOM", color |-> BYLAYER, text |-> <<>>,
     pts |-> <<<<0, 0>>, <<2, 0>>, <<2, 2>>>>, geom |-> Geom(TRUE, TRUE, 0)],
    [dxftype |-> "LWPOLYLINE", layer |-> "WALL", color |-> BYLAYER, text |-> <<>>,
     pts |-> <<<<0, 0>>, <<2, 0>>, <<2, 2>>>>, geom |-> Geom(FALSE, FALSE, 0)],
    [dxftype |-> "POLYLINE", layer |-> "ROOM", color |-> BYLAYER, text |-> <<>>,
     pts |-> <<<<0, 0>>, <<2, 0>>, <<2, 2>>, <<0, 2>>>>, geom |-> Geom(TRUE, TRUE, 0)],
    [dxftype |-> "POLYLINE", layer |-> "ROOM", color |-> BYLAYER, text |-> <<>>,
     pts |-> <<<<0, 0>>, <<2, 0>>, <<2, 2>>>>,
     geom |-> [Geom(TRUE, FALSE, 0) EXCEPT !.fails = "vertices"]],
    [dxftype |-> "HATCH", layer |-> "ROOM", color |-> BYLAYER, text |-> <<>>,
     pts |-> <<>>, geom |-> [NoGeom EXCEPT !.area = <<6>>]],
    [dxftype |-> "LINE", layer |-> "WALL", color |-> BYLAYER, text |-> <<>>,
     pts |-> <<<<0, 0>>, <<2, 0>>>>, geom |-> [NoGeom EXCEPT !.fails = "layer"]],
    [dxftype |-> "LINE", layer |-> "WALL", color |-> BYLAYER, text |-> <<>>,
     pts |-> <<<<0, 0>>, <<2, 0>>>>, geom |-> [NoGeom EXCEPT !.fails = "dxftype"]] }

\* what a paperspace layout may hold
PaperShapes ==
  { g \in SummaryShapes :
      \/ g.dxftype = "HATCH"
      \/ g.dxftype = "TEXT" /\ g.text = <<"a">> }

\* the entities of the paperspace layout: none or one
PaperSeqs ==
  {<<>>} \cup
  { <<Ent(HandleOf(MaxEntities + 2), g.dxftype, g.layer, g.color, g.text, g.pts, g.geom)>> :
      g \in PaperShapes }

\* documents with a modelspace of up to MaxEntities entities and a
\* paperspace layout
SummaryDocs ==
  UNION { { [layers |-> [ln \in LayerNames |-> 1], entities |-> es, paper |-> ps] :
              es \in EntitySeqs(SummaryShapes, n), ps \in PaperSeqs } :
            n \in 0..MaxEntities }

\* max_text_items and max_boundary_candidates
Caps == {0, 1, 2}

SummaryRequests ==
  { [op |-> "summarize_dxf", args |-> SummaryArgs(SrcPath, ip, c, c)] :
      ip \in BOOLEAN, c \in Caps }
  \cup
  { [op |-> "list_layers", args |-> PathArgs(SrcPath)] }

InitSummary == \E doc \in SummaryDocs, req \in SummaryRequests : InitOf(doc, 0, req)

NextSummary ==
  \/ \E ip \in BOOLEAN, c \in Caps : summarize_dxf(SrcPath, ip, c, c)
  \/ list_layers(SrcPath)

SpecSummary == InitSummary /\ [][NextSummary]_vars



----------------------------------------------------------------------------
(* Runs in which a question follows edits of the same file *)

AfterShapes ==
  { [dxftype |-> "LINE", layer |-> "WALL", color |-> BYLAYER, text |-> <<>>,
     pts |-> <<<<0, 0>>, <<2, 0>>>>, geom |-> NoGeom],
    [dxftype |-> "TEXT", layer |-> "ROOM", color |-> BYLAYER, text |-> <<FMT, "a">>,
     pts |-> <<<<0, 0>>>>, geom |-> NoGeom],
    [dxftype |-> "MTEXT", layer |-> "WALL", color |-> 1, text |-> <<FMT, "a">>,
     pts |-> <<<<1, 1>>>>, geom |-> NoGeom] }

AfterDocs ==
  UNION { { Doc([ln \in LayerNames |-> 1], es) : es \in EntitySeqs(AfterShapes, n) } :
            n \in 0..MaxEntities }

AfterRequests ==
  { [op |-> o, args |-> HandleArgs(SrcPath, h)] :
      o \in {"get_entity_info", "get_entity_center"}, h \in Handles }
  \cup
  { [op |-> "find_entities_in_region",
     args |-> RegionArgs(SrcPath, xmin, 0, 2, 2, lp, None)] :
      xmin \in XMins, lp \in LayerPatterns }
  \cup
  { [op |-> "list_layers", args |-> PathArgs(SrcPath)] }

\* a document, edits in place still to come, and one question that is asked
\* before, between or after them
InitAfter == \E doc \in AfterDocs, req \in AfterRequests : InitOf(doc, MaxMutations, req)

NextAfter ==
  \/ \E l \in LayerNames, c \in LayerColors : color_layer(SrcPath, l, c, None)
  \/ \E h \in Handles : delete_entity(SrcPath, h, None)
  \/ \E h \in Handles, t \in Texts : edit_text(SrcPath, h, t, None)
  \/ \E h \in Handles : get_entity_info(SrcPath, h)
  \/ \E h \in Handles : get_entity_center(SrcPath, h)
  \/ \E xmin \in XMins, lp \in LayerPatterns :
       find_entities_in_region(SrcPath, xmin, 0, 2, 2, lp, None)
  \/ list_layers(SrcPath)

SpecAfter == InitAfter /\ [][NextAfter]_vars

----------------------------------------------------------------------------
(* Two callers on one file.  A mutation is ezdxf.readfile, a change of the  *)
(* in-memory document, and doc.saveas; no lock is taken, so a step of the   *)
(* other caller can fall between the load and the save.                     *)

\* doc.saveas calls completed so far
Writes == Cardinality({c \in Callers : callers[c].wrote > 0})

\* a caller after ezdxf.readfile and the change of its in-memory document
Loaded(op, args, doc, mem) ==
  [pc |-> "loaded", op |-> op, args |-> args, read |-> <<doc>>, mem |-> <<mem>>,
   read_at |-> Writes, wrote |-> 0]

\* a caller whose mutation raised before doc.saveas
Failed(op, args, doc) ==
  [pc |-> "failed", op |-> op, args |-> args, read |-> <<doc>>, mem |-> <<>>,
   read_at |-> Writes, wrote |-> 0]

\* color_layer up to its "# Save" step
color_layer_load(c, dxf_path, layer_name, color, output_path) ==
  /\ callers[c].pc = "idle"
  /\ files[dxf_path] # <<>>
  /\ LET doc == readfile(files, dxf_path)
     IN  callers' = [callers EXCEPT ![c] =
                       Loaded("color_layer",
                              [dxf_path |-> dxf_path, layer_name |-> layer_name,
                               color |-> color, output_path |-> output_path],
                              doc, ColorLayerDoc(doc, layer_name, color))]
  /\ UNCHANGED <<files, last, budget, request, agent>>

\* edit_text up to its "# Save" step
edit_text_load(c, dxf_path, handle, new_text, output_path) ==
  /\ callers[c].pc = "idle"
  /\ files[dxf_path] # <<>>
  /\ LET doc  == readfile(files, dxf_path)
         args == [dxf_path |-> dxf_path, handle |-> handle,
                  new_text |-> new_text, output_path |-> output_path]
     IN  callers' = [callers EXCEPT ![c] =
                       IF ~InEntityDb(doc, handle) THEN Failed("edit_text", args, doc)
                       ELSE IF EntityDb(doc, handle).dxftype \notin TextKinds
                       THEN Failed("edit_text", args, doc)
                       ELSE Loaded("edit_text", args, doc, SetTextDoc(doc, handle, new_text))]
  /\ UNCHANGED <<files, last, budget, request, agent>>

\* mutant of doc_saveas: the change is applied to the file as it is at the
\* time of the save
doc_saveas_merging(c) ==
  /\ callers[c].pc = "loaded"
  /\ LET a   == callers[c].args
         out == OutOf(a.dxf_path, a.output_path)
         cur == readfile(files, a.dxf_path)
     IN  files' = saveas(files, out,
                         IF callers[c].op = "color_layer"
                         THEN ColorLayerDoc(cur, a.layer_name, a.color)
                         ELSE SetTextDoc(cur, a.handle, a.new_text))
  /\ callers' = [callers EXCEPT ![c].pc = "done", ![c].wrote = Writes + 1]
  /\ UNCHANGED <<last, budget, request, agent>>

\* the "# Save" step of a mutation: the whole in-memory document of the
\* caller replaces the file
doc_saveas(c) ==
  /\ callers[c].pc = "loaded"
  /\ LET a   == callers[c].args
         out == OutOf(a.dxf_path, a.output_path)
     IN  files' = saveas(files, out, callers[c].mem[1])
  /\ callers' = [callers EXCEPT ![c].pc = "done", ![c].wrote = Writes + 1]
  /\ UNCHANGED <<last, budget, request, agent>>

InitRace ==
  \E doc \in AfterDocs :
    /\ files = [p \in Paths |-> IF p = SrcPath THEN <<doc>> ELSE <<>>]
    /\ last = [op |-> "init", args |-> <<>>, pre |-> files, raised |-> "none",
               ret |-> None, writes |-> <<>>, prev |-> [op |-> "init", args |-> <<>>]]
    /\ budget = 0
    /\ request = NoRequest
    /\ callers = [c \in Callers |-> Idle]
    /\ agent = NoAgent

NextRace ==
  \/ \E c \in Callers, l \in LayerNames, col \in LayerColors :
       color_layer_load(c, SrcPath, l, col, None)
  \/ \E c \in Callers, h \in Handles, t \in Texts : edit_text_load(c, SrcPath, h, t, None)
  \/ \E c \in Callers : doc_saveas(c)

SpecRace == InitRace /\ [][NextRace]_vars

----------------------------------------------------------------------------
(* The agents: CADAgent (cad_agent_claude.py) and CADAgentOpenAI            *)
(* (cad_agent_openai.py).  What the model API answers and what              *)
(* _execute_tool returns for a call are inputs of chat.                     *)

\* results longer than this are cut before they go back to the model
DispatchCap == 20

\* the longest list a tool returns
MaxItems == 22

\* the largest max_turns of a chat call
MaxTurns == 2

\* chat and reset calls of one run
MaxChats == 2

\* a list of n entity records
Items(n) == [i \in 1..n |-> [item |-> i]]

\* mutant of TruncateResult: a list of exactly the cap is cut too
TruncateResultAtCap(result, text) ==
  IF result.type = "list" /\ Len(result.value) >= DispatchCap
  THEN [type |-> "list",
        value |-> SubSeq(result.value, 1, DispatchCap)
                  \o <<[note |-> Len(result.value) - DispatchCap, text |-> text]>>]
  ELSE result

\* if isinstance(result, list) and len(result) > 20:
\*     result = result[:20] + [{"note": f"... {len(result) - 20} <text>"}]
TruncateResult(result, text) ==
  IF result.type = "list" /\ Len(result.value) > DispatchCap
  THEN [type |-> "list",
        value |-> SubSeq(result.value, 1, DispatchCap)
                  \o <<[note |-> Len(result.value) - DispatchCap, text |-> text]>>]
  ELSE result

\* response.content as the history keeps it: the blocks without what their
\* execution will return
Stored(content) == [b \in DOMAIN content |-> [type |-> content[b].type]]

\* tool_results of CADAgent.chat: one entry per tool_use block, in order; the
\* content is the value json.dumps serializes
ToolResults(content) ==
  LET uses == SelectSeq(content, LAMBDA block : block.type = "tool_use")
  IN  [b \in 1..Len(uses) |->
         [type |-> "tool_result",
          content |-> TruncateResult(uses[b].output, "more items truncated")]]

\* the while loop of CADAgent.chat; responses[t] is what
\* client.messages.create returns at turn t
RECURSIVE ChatLoop(_, _, _, _)
ChatLoop(messages, turn_count, max_turns, responses) ==
  IF ~(turn_count < max_turns) \/ turn_count >= Len(responses)
  THEN [messages |-> messages, ret |-> "Maximum turns reached", requests |-> turn_count]
  ELSE LET t        == turn_count + 1
           response == responses[t]
           answered == Append(messages,
                              [role |-> "assistant", content |-> Stored(response.content)])
       IN  IF response.stop_reason = "end_turn"
           THEN [messages |-> answered, ret |-> "text", requests |-> t]
           ELSE IF response.stop_reason = "tool_use"
           THEN ChatLoop(Append(answered,
                                [role |-> "user", content |-> ToolResults(response.content)]),
                         t, max_turns, responses)
           ELSE [messages |-> answered, ret |-> "Unexpected stop reason", requests |-> t]

\* the while loop of CADAgentOpenAI.chat; responses[t] is
\* response.choices[0].message at turn t
RECURSIVE ChatLoopOpenAI(_, _, _, _)
ChatLoopOpenAI(messages, turn_count, max_turns, responses) ==
  IF ~(turn_count < max_turns) \/ turn_count >= Len(responses)
  THEN [messages |-> messages, ret |-> "Maximum turns reached", requests |-> turn_count]
  ELSE LET t        == turn_count + 1
           message  == responses[t]
           answered == Append(messages,
                              [role |-> "assistant",
                               content |-> [function_call |-> message.function_call # <<>>]])
       IN  IF message.function_call # <<>>
           THEN ChatLoopOpenAI(
                  Append(answered,
                         [role |-> "function",
                          content |-> TruncateResult(message.function_call[1].output,
                                                     "more truncated")]),
                  t, max_turns, responses)
           ELSE [messages |-> answered, ret |-> "text", requests |-> t]

ChatArgs(user_message, max_turns, responses) ==
  [user_message |-> user_message, max_turns |-> max_turns, responses |-> responses]

\* the calls the API answered are exactly the calls the loop made
Consumed(r, max_turns, responses) ==
  /\ Len(responses) = r.requests
  /\ r.ret = "Maximum turns reached" => r.requests = max_turns

\* CADAgent.chat
chat(user_message, max_turns, responses) ==
  /\ agent.class = "CADAgent"
  /\ agent.calls > 0
  /\ LET r == ChatLoop(Append(agent.messages, [role |-> "user", content |-> user_message]),
                       0, max_turns, responses)
     IN  /\ Consumed(r, max_turns, responses)
         /\ agent' = [agent EXCEPT !.messages = r.messages, !.calls = @ - 1,
                                   !.requests = r.requests, !.start = Len(agent.messages)]
         /\ last' = Call("chat", ChatArgs(user_message, max_turns, responses), "none",
                         r.ret, <<>>)
  /\ UNCHANGED <<files, budget, request, callers>>

\* CADAgentOpenAI.chat
chat_openai(user_message, max_turns, responses) ==
  /\ agent.class = "CADAgentOpenAI"
  /\ agent.calls > 0
  /\ LET r == ChatLoopOpenAI(Append(agent.messages,
                                    [role |-> "user", content |-> user_message]),
                             0, max_turns, responses)
     IN  /\ Consumed(r, max_turns, responses)
         /\ agent' = [agent EXCEPT !.messages = r.messages, !.calls = @ - 1,
                                   !.requests = r.requests, !.start = Len(agent.messages)]
         /\ last' = Call("chat", ChatArgs(user_message, max_turns, responses), "none",
                         r.ret, <<>>)
  /\ UNCHANGED <<files, budget, request, callers>>

\* self.messages of a new agent and after reset
FreshMessages(class) ==
  IF class = "CADAgentOpenAI" THEN <<[role |-> "system", content |-> "system_prompt"]>>
  ELSE <<>>

\* CADAgent.reset, CADAgentOpenAI.reset
reset ==
  /\ agent.class # "none"
  /\ agent.calls > 0
  /\ agent' = [agent EXCEPT !.messages = FreshMessages(agent.class), !.calls = @ - 1,
                            !.requests = 0, !.start = 0]
  /\ last' = Call("reset", <<>>, "none", None, <<>>)
  /\ UNCHANGED <<files, budget, request, callers>>

\* a constructed agent on a drawing, calls still to come
InitAgent(class, calls) ==
  /\ files = [p \in Paths |->
                IF p = SrcPath THEN <<Doc([ln \in LayerNames |-> 1], <<>>)>> ELSE <<>>]
  /\ last = [op |-> "init", args |-> <<>>, pre |-> files, raised |-> "none",
             ret |-> None, writes |-> <<>>, prev |-> [op |-> "init", args |-> <<>>]]
  /\ budget = 0
  /\ request = NoRequest
  /\ callers = [c \in Callers |-> Idle]
  /\ agent = [class |-> class, messages |-> FreshMessages(class), calls |-> calls,
              requests |-> 0, start |-> 0]

TextBlock == [type |-> "text", output |-> None]

ToolUse(output) == [type |-> "tool_use", output |-> output]

\* lengths of the lists a tool returns: none, one, around the cap, the longest
ResultLengths == {0, 1, DispatchCap - 1, DispatchCap, DispatchCap + 1, MaxItems}

\* what _execute_tool returns: lists of these lengths, an error dict, and a
\* str longer than the cap
DispatchOutputs ==
  { [type |-> "list", value |-> Items(n)] : n \in ResultLengths }
  \cup { [type |-> "dict", value |-> <<[error |-> "e"]>>],
         [type |-> "str", value |-> Items(MaxItems)] }

\* the sequences of at most n elements of S
SeqsUpTo(S, n) == UNION { [1..k -> S] : k \in 0..n }

\* runs of one chat call whose tool calls return results of every length
InitDispatch == \E class \in {"CADAgent", "CADAgentOpenAI"} : InitAgent(class, 1)

NextDispatch ==
  \/ \E max_turns \in 1..MaxTurns,
        responses \in SeqsUpTo(
          { [stop_reason |-> "end_turn", content |-> <<TextBlock>>] }
          \cup { [stop_reason |-> "tool_use", content |-> <<TextBlock, ToolUse(o)>>] :
                   o \in DispatchOutputs },
          MaxTurns) :
       chat("u", max_turns, responses)
  \/ \E max_turns \in 1..MaxTurns,
        responses \in SeqsUpTo(
          { [function_call |-> <<>>] }
          \cup { [function_call |-> <<[name |-> "tool", output |-> o]>>] :
                   o \in DispatchOutputs },
          MaxTurns) :
       chat_openai("u", max_turns, responses)

SpecDispatch == InitDispatch /\ [][NextDispatch]_vars

\* what the API answers in the runs of several calls
HistoryResponses ==
  { [stop_reason |-> s, content |-> <<TextBlock>>] : s \in {"end_turn", "max_tokens"} }
  \cup { [stop_reason |-> "tool_use",
          content |-> <<TextBlock, ToolUse([type |-> "list", value |-> Items(1)])>>] }

\* runs of chat and reset calls on one CADAgent
InitHistory == InitAgent("CADAgent", MaxChats)

UserMessages == {"u", "v"}

NextHistory ==
  \/ \E user_message \in UserMessages, max_turns \in 1..MaxTurns,
        responses \in SeqsUpTo(HistoryResponses, MaxTurns) :
       chat(user_message, max_turns, responses)
  \/ reset

SpecHistory == InitHistory /\ [][NextHistory]_vars

----------------------------------------------------------------------------
(* The claims.  Each is stated on the record of the last call: the files it *)
(* found (last.pre), its arguments and outcome, and the files it left.      *)

\* the document the last call read
CallDoc == last.pre[last.args.dxf_path][1]

\* the location the last call was asked to write
AskedOut ==
  IF last.args.output_path = None THEN last.args.dxf_path ELSE last.args.output_path

\* the document at the location the last call was asked to write
Written == files[AskedOut][1]

Resolves(doc, h) == \E i \in DOMAIN doc.entities : doc.entities[i].handle = h

EntityOf(doc, h) == doc.entities[CHOOSE i \in DOMAIN doc.entities : doc.entities[i].handle = h]

\* nothing was written and every location holds what it held
NoWrite == files = last.pre /\ last.writes = <<>>

\* C1: delete_entity on a handle that does not resolve raises KeyError
\* (NotFound) and writes nothing: source and output location are as before.
C1_DeleteUnknownHandle ==
  (last.op = "delete_entity" /\ ~Resolves(CallDoc, last.args.handle))
    => (last.raised = "KeyError" /\ NoWrite)

C1_Witness ==
  /\ last.op = "delete_entity"
  /\ ~Resolves(CallDoc, last.args.handle)
  /\ Len(CallDoc.entities) > 0
  /\ last.args.output_path = OutPath
  /\ last.raised = "KeyError"

\* C2: edit_text raises KeyError (NotFound) on a handle that does not resolve
\* and TypeError (WrongEntityKind) on an entity that is neither TEXT nor
\* MTEXT; in both cases nothing is written.
C2_EditTextFailures ==
  /\ (last.op = "edit_text" /\ ~Resolves(CallDoc, last.args.handle))
       => (last.raised = "KeyError" /\ NoWrite)
  /\ (last.op = "edit_text" /\ Resolves(CallDoc, last.args.handle)
        /\ EntityOf(CallDoc, last.args.handle).dxftype \notin {"TEXT", "MTEXT"})
       => (last.raised = "TypeError" /\ NoWrite)

C2_Witness ==
  /\ last.op = "edit_text"
  /\ Resolves(CallDoc, last.args.handle)
  /\ EntityOf(CallDoc, last.args.handle).dxftype = "LINE"
  /\ last.args.output_path = OutPath
  /\ last.raised = "TypeError"

\* C3: color_layer on a layer name the document does not define raises
\* NotFound and writes nothing.
C3_UnknownLayerFails ==
  (last.op = "color_layer" /\ last.args.layer_name \notin DOMAIN CallDoc.layers)
    => (last.raised = "KeyError" /\ NoWrite)

\* C4: after color_layer on a defined layer, the written document has the
\* layer's color and the color of every entity on that layer (inheriting or
\* not) equal to the given color; every other layer definition and every
\* entity on another layer is as it was.
C4_ColorLayerEffect ==
  (last.op = "color_layer" /\ last.raised = "none"
     /\ last.args.layer_name \in DOMAIN CallDoc.layers)
    => LET d == CallDoc
           w == Written
           l == last.args.layer_name
           c == last.args.color
       IN  /\ DOMAIN w.layers = DOMAIN d.layers
           /\ w.layers[l] = c
           /\ \A n \in DOMAIN d.layers \ {l} : w.layers[n] = d.layers[n]
           /\ Len(w.entities) = Len(d.entities)
           /\ \A i \in DOMAIN d.entities :
                IF d.entities[i].layer = l
                THEN w.entities[i] = [d.entities[i] EXCEPT !.color = c]
                ELSE w.entities[i] = d.entities[i]

C4_Witness ==
  /\ last.op = "color_layer"
  /\ last.raised = "none"
  /\ last.args.layer_name \in DOMAIN CallDoc.layers
  /\ CallDoc.layers[last.args.layer_name] # last.args.color
  /\ \E i \in DOMAIN CallDoc.entities :
       /\ CallDoc.entities[i].layer = last.args.layer_name
       /\ CallDoc.entities[i].color = BYLAYER
       /\ Written.entities[i].color = last.args.color
  /\ \E i \in DOMAIN CallDoc.entities : CallDoc.entities[i].layer # last.args.layer_name

\* the last call repeats the mutation before it: color_layer in place on a
\* defined layer, with the same layer name and color
RepeatedColorLayer ==
  /\ last.op = "color_layer"
  /\ last.prev.op = "color_layer"
  /\ last.prev.args = last.args
  /\ last.args.output_path = None
  /\ last.args.layer_name \in DOMAIN CallDoc.layers

\* C5: color_layer is idempotent: a second in-place color_layer with the same
\* layer and color leaves the document the first one wrote.
C5_ColorLayerIdempotent ==
  RepeatedColorLayer => files[last.args.dxf_path] = last.pre[last.args.dxf_path]

C5_Witness ==
  /\ RepeatedColorLayer
  /\ \E i \in DOMAIN CallDoc.entities : CallDoc.entities[i].layer = last.args.layer_name
  /\ \E i \in DOMAIN CallDoc.entities : CallDoc.entities[i].layer # last.args.layer_name
  /\ files[last.args.dxf_path] = last.pre[last.args.dxf_path]

\* C6: after a successful delete_entity the written document holds no entity
\* with the handle, holds every other entity unchanged and in the same order,
\* and has the same layers.
C6_DeleteEffect ==
  (last.op = "delete_entity" /\ last.raised = "none")
    => LET d == CallDoc
           w == Written
           h == last.args.handle
       IN  /\ ~Resolves(w, h)
           /\ w.layers = d.layers
           /\ Len(w.entities) = Len(d.entities) - 1
           /\ \A i \in DOMAIN d.entities :
                d.entities[i].handle # h =>
                  \E j \in DOMAIN w.entities : w.entities[j] = d.entities[i]
           /\ \A j, k \in DOMAIN w.entities :
                j < k =>
                  \E a, b \in DOMAIN d.entities :
                    a < b /\ d.entities[a] = w.entities[j] /\ d.entities[b] = w.entities[k]

C6_Witness ==
  /\ last.op = "delete_entity"
  /\ last.raised = "none"
  /\ Len(CallDoc.entities) = MaxEntities
  /\ last.args.handle = HandleOf(1)
  /\ Len(Written.entities) = MaxEntities - 1

\* C7: a successful edit_text returns the given handle, the text the entity
\* showed before the call as old_text and the given text as new_text; in the
\* written document the entity shows new_text and no other entity changed.
C7_EditTextEffect ==
  (last.op = "edit_text" /\ last.raised = "none")
    => LET d == CallDoc
           w == Written
           h == last.args.handle
       IN  /\ last.ret.handle = h
           /\ last.ret.old_text = InfoText(EntityOf(d, h))
           /\ last.ret.new_text = last.args.new_text
           /\ Resolves(w, h)
           /\ InfoText(EntityOf(w, h)) = last.args.new_text
           /\ Len(w.entities) = Len(d.entities)
           /\ \A i \in DOMAIN d.entities :
                d.entities[i].handle # h => w.entities[i] = d.entities[i]

\* what the last call was to do is visible in the document doc
ShowsMutation(doc) ==
  IF last.op = "color_layer"
  THEN \A i \in DOMAIN doc.entities :
         doc.entities[i].layer = last.args.layer_name
           => doc.entities[i].color = last.args.color
  ELSE IF last.op = "delete_entity"
  THEN ~Resolves(doc, last.args.handle)
  ELSE EntityOf(doc, last.args.handle).text = last.args.new_text

PassesFilters(e) ==
  /\ last.args.layer_pattern = None \/ e.layer = last.args.layer_pattern
  /\ last.args.entity_type = None \/ e.dxftype = last.args.entity_type

\* the center of e is defined and lies in the closed rectangle of the last query
CenterInRectangle(e) ==
  /\ Center(e) # NoCenter
  /\ last.args.xmin * Center(e)[3] <= Center(e)[1]
  /\ Center(e)[1] <= last.args.xmax * Center(e)[3]
  /\ last.args.ymin * Center(e)[3] <= Center(e)[2]
  /\ Center(e)[2] <= last.args.ymax * Center(e)[3]

\* C9: find_entities_in_region returns, in traversal order, exactly the
\* entities that pass the layer and type filters, have a center and have it
\* inside the rectangle, edges included; an entity without a center is never
\* returned.
C9_RegionResult ==
  last.op = "find_entities_in_region"
    => LET expected == SelectSeq(CallDoc.entities,
                                 LAMBDA e : PassesFilters(e) /\ CenterInRectangle(e))
       IN  /\ Len(last.ret) = Len(expected)
           /\ \A i \in DOMAIN expected :
                /\ last.ret[i].info.handle = expected[i].handle
                /\ last.ret[i].info.dxftype = expected[i].dxftype
                /\ last.ret[i].info.layer = expected[i].layer
                /\ last.ret[i].center = Center(expected[i])
           /\ \A i \in DOMAIN last.ret : last.ret[i].center # NoCenter

C9_Witness ==
  /\ last.op = "find_entities_in_region"
  /\ \E i \in DOMAIN last.ret :
       /\ last.ret[i].center[1] = last.args.xmin * last.ret[i].center[3]
       /\ last.ret[i].center[2] = last.args.ymin * last.ret[i].center[3]
  /\ \E i \in DOMAIN CallDoc.entities :
       /\ PassesFilters(CallDoc.entities[i])
       /\ Center(CallDoc.entities[i]) = NoCenter
  /\ Len(last.ret) < Len(CallDoc.entities)

\* squared distance of the center of e to the point of the last query, as a
\* numerator over the square of the center's denominator
NumSq(e) ==
  (Center(e)[1] - last.args.x * Center(e)[3]) * (Center(e)[1] - last.args.x * Center(e)[3])
    + (Center(e)[2] - last.args.y * Center(e)[3]) * (Center(e)[2] - last.args.y * Center(e)[3])

DenSq(e) == Center(e)[3] * Center(e)[3]

\* e has a center no farther than the radius from the point of the last query
CenterInRadius(e) ==
  /\ Center(e) # NoCenter
  /\ last.args.radius >= 0
  /\ NumSq(e) <= last.args.radius * last.args.radius * DenSq(e)

IndexOf(doc, h) == CHOOSE i \in DOMAIN doc.entities : doc.entities[i].handle = h

\* C10: find_entities_near_point returns every filtered entity whose center
\* is within the radius and no other; the result is in non-decreasing order of
\* distance, and entities at the same distance keep their traversal order.
C10_NearResult ==
  last.op = "find_entities_near_point"
    => LET d   == CallDoc
           ret == last.ret
           E(j) == EntityOf(d, ret[j].info.handle)
       IN  /\ \A j \in DOMAIN ret : Resolves(d, ret[j].info.handle)
           /\ \A i \in DOMAIN d.entities :
                (PassesFilters(d.entities[i]) /\ CenterInRadius(d.entities[i]))
                  <=> \E j \in DOMAIN ret : ret[j].info.handle = d.entities[i].handle
           /\ \A j, k \in DOMAIN ret : j # k => ret[j].info.handle # ret[k].info.handle
           /\ \A j \in DOMAIN ret :
                /\ ret[j].center = Center(E(j))
                /\ ret[j].distance[1] * DenSq(E(j)) = NumSq(E(j)) * ret[j].distance[2]
           /\ \A j, k \in DOMAIN ret :
                j < k =>
                  /\ NumSq(E(j)) * DenSq(E(k)) <= NumSq(E(k)) * DenSq(E(j))
                  /\ NumSq(E(j)) * DenSq(E(k)) = NumSq(E(k)) * DenSq(E(j))
                       => IndexOf(d, ret[j].info.handle) < IndexOf(d, ret[k].info.handle)

C10_Witness ==
  /\ last.op = "find_entities_near_point"
  /\ Len(last.ret) = 2
  /\ last.args.radius = 1
  /\ last.ret[1].info.dxftype # last.ret[2].info.dxftype
  /\ last.ret[1].distance = <<1, 1>>
  /\ last.ret[2].distance = <<1, 1>>

\* C11: find_adjacent_entities on a reference that has a center returns the
\* result of find_entities_near_point at that center, with the same radius
\* and filters, without the entries of the reference and in the same order;
\* the reference is never in the result, also when max_distance is 0.
C11_AdjacentIsNearPoint ==
  (/\ last.op = "find_adjacent_entities"
   /\ Resolves(CallDoc, last.args.handle)
   /\ Center(EntityOf(CallDoc, last.args.handle)) # NoCenter)
    => LET near == FindEntitiesNearPoint(last.pre, last.args.dxf_path,
                                         Center(EntityOf(CallDoc, last.args.handle)),
                                         last.args.max_distance,
                                         last.args.layer_pattern, last.args.entity_type)
           kept == {i \in DOMAIN near : near[i].info.handle # last.args.handle}
       IN  /\ Len(last.ret) = Cardinality(kept)
           /\ \A i \in kept :
                last.ret[Cardinality({j \in kept : j <= i})] = near[i]
           /\ \A i \in DOMAIN last.ret : last.ret[i].info.handle # last.args.handle

\* the reference passes the filters, max_distance is 0, and another entity
\* with the same center is returned
C11_Witness ==
  /\ last.op = "find_adjacent_entities"
  /\ last.args.max_distance = 0
  /\ Resolves(CallDoc, last.args.handle)
  /\ PassesFilters(EntityOf(CallDoc, last.args.handle))
  /\ Len(last.ret) = 1
  /\ last.ret[1].distance[1] = 0

\* the centers P1 and P2 of the references of the last find_entities_between
BetweenP1 == Center(EntityOf(CallDoc, last.args.handle1))

BetweenP2 == Center(EntityOf(CallDoc, last.args.handle2))

\* both references resolve and have a center
BetweenReferencesDefined ==
  /\ Resolves(CallDoc, last.args.handle1)
  /\ Resolves(CallDoc, last.args.handle2)
  /\ BetweenP1 # NoCenter
  /\ BetweenP2 # NoCenter

\* |P2 - P1| is below the epsilon of one thousandth
BetweenDegenerate ==
  LET dx == BetweenP2[1] * BetweenP1[3] - BetweenP1[1] * BetweenP2[3]
      dy == BetweenP2[2] * BetweenP1[3] - BetweenP1[2] * BetweenP2[3]
      dd == BetweenP1[3] * BetweenP2[3] * BetweenP1[3] * BetweenP2[3]
  IN  dx * dx + dy * dy < (dd + 999999) \div 1000000

\* P1, P2 and the center of e on the common grid of step
\* 1 / (P1[3] * P2[3] * Center(e)[3])
GridScale(e) == BetweenP1[3] * BetweenP2[3] * Center(e)[3]

GridL(e) ==
  <<(BetweenP2[1] * BetweenP1[3] - BetweenP1[1] * BetweenP2[3]) * Center(e)[3],
    (BetweenP2[2] * BetweenP1[3] - BetweenP1[2] * BetweenP2[3]) * Center(e)[3]>>

GridV(e) ==
  <<(Center(e)[1] * BetweenP1[3] - BetweenP1[1] * Center(e)[3]) * BetweenP2[3],
    (Center(e)[2] * BetweenP1[3] - BetweenP1[2] * Center(e)[3]) * BetweenP2[3]>>

GridCross(e) == GridL(e)[1] * GridV(e)[2] - GridL(e)[2] * GridV(e)[1]

GridDot(e) == GridL(e)[1] * GridV(e)[1] + GridL(e)[2] * GridV(e)[2]

GridLL(e) == GridL(e)[1] * GridL(e)[1] + GridL(e)[2] * GridL(e)[2]

\* the projection of the center of e lies in [0, |P2 - P1|] and its
\* perpendicular distance is at most max_distance_from_line
InCorridor(e) ==
  /\ 0 <= GridDot(e)
  /\ GridDot(e) <= GridLL(e)
  /\ last.args.max_distance_from_line >= 0
  /\ GridCross(e) * GridCross(e)
       <= last.args.max_distance_from_line * last.args.max_distance_from_line
            * GridScale(e) * GridScale(e) * GridLL(e)

\* e is a candidate: not a reference, on the filtered layer, with a center
BetweenCandidate(e) ==
  /\ e.handle \notin {last.args.handle1, last.args.handle2}
  /\ last.args.layer_pattern = None \/ e.layer = last.args.layer_pattern
  /\ Center(e) # NoCenter

\* the center c is the point (x, y)
IsPoint(c, x, y) == c # NoCenter /\ c[1] = x * c[3] /\ c[2] = y * c[3]

\* the number <<n, d, r>>, n / (d * sqrt(r)), is the whole number v
IsValue(q, v) == q[1] >= 0 /\ v >= 0 /\ q[1] * q[1] = v * v * q[2] * q[2] * q[3]

\* C12: find_entities_between with references that have centers P1 and P2
\* returns nothing when |P2 - P1| is below the epsilon; otherwise it returns
\* exactly the candidates inside the corridor, in ascending order of
\* perpendicular distance.  For (0,0) -> (100,0) and 10, a center at (50,5)
\* is returned with distance 5 and projection 50, one at (120,0) is not.
C12_BetweenResult ==
  (last.op = "find_entities_between" /\ BetweenReferencesDefined)
    => IF BetweenDegenerate THEN last.ret = <<>>
       ELSE LET d    == CallDoc
                ret  == last.ret
                E(j) == EntityOf(d, ret[j].info.handle)
            IN  /\ \A j \in DOMAIN ret : Resolves(d, ret[j].info.handle)
                /\ \A i \in DOMAIN d.entities :
                     (BetweenCandidate(d.entities[i]) /\ InCorridor(d.entities[i]))
                       <=> \E j \in DOMAIN ret : ret[j].info.handle = d.entities[i].handle
                /\ \A j, k \in DOMAIN ret : j # k => ret[j].info.handle # ret[k].info.handle
                /\ \A j, k \in DOMAIN ret :
                     j < k => Abs(GridCross(E(j))) * GridScale(E(k)) * GridScale(E(k))
                                <= Abs(GridCross(E(k))) * GridScale(E(j)) * GridScale(E(j))
                /\ (/\ IsPoint(BetweenP1, 0, 0)
                    /\ IsPoint(BetweenP2, 100, 0)
                    /\ last.args.max_distance_from_line = 10)
                     => \A i \in DOMAIN d.entities :
                          BetweenCandidate(d.entities[i])
                            => /\ IsPoint(Center(d.entities[i]), 50, 5)
                                    => \E j \in DOMAIN ret :
                                         /\ ret[j].info.handle = d.entities[i].handle
                                         /\ IsValue(ret[j].distance_from_centerline, 5)
                                         /\ IsValue(ret[j].projection_along_line, 50)
                               /\ IsPoint(Center(d.entities[i]), 120, 0)
                                    => \A j \in DOMAIN ret :
                                         ret[j].info.handle # d.entities[i].handle

\* segment (0,0) -> (100,0), corridor 10: the center at (50,5) and the center
\* on the edge of the corridor are returned, nearest first, against the
\* traversal order
C12_Witness ==
  /\ last.op = "find_entities_between"
  /\ BetweenReferencesDefined
  /\ IsPoint(BetweenP1, 0, 0)
  /\ IsPoint(BetweenP2, 100, 0)
  /\ last.args.max_distance_from_line = 10
  /\ Len(last.ret) = 2
  /\ IsPoint(last.ret[1].center, 50, 5)
  /\ IsValue(last.ret[1].distance_from_centerline, 5)
  /\ IsValue(last.ret[1].projection_along_line, 50)
  /\ IsValue(last.ret[2].distance_from_centerline, 10)
  /\ IndexOf(CallDoc, last.ret[2].info.handle) < IndexOf(CallDoc, last.ret[1].info.handle)

\* the handle resolves to an entity that has a center
HasCenter(doc, h) == Resolves(doc, h) /\ Center(EntityOf(doc, h)) # NoCenter

\* C13: calculate_distance(A, B) is what calculate_distance(B, A) returns on
\* the same document; it is absent exactly when A or B does not resolve or
\* has no center, and it is 0 when A and B have the same center.
C13_DistanceSymmetric ==
  last.op = "calculate_distance"
    => LET d  == CallDoc
           h1 == last.args.handle1
           h2 == last.args.handle2
       IN  /\ last.ret = CalculateDistance(last.pre, last.args.dxf_path, h2, h1)
           /\ last.ret = <<>> <=> ~(HasCenter(d, h1) /\ HasCenter(d, h2))
           /\ (/\ HasCenter(d, h1)
               /\ HasCenter(d, h2)
               /\ Center(EntityOf(d, h1))[1] * Center(EntityOf(d, h2))[3]
                    = Center(EntityOf(d, h2))[1] * Center(EntityOf(d, h1))[3]
               /\ Center(EntityOf(d, h1))[2] * Center(EntityOf(d, h2))[3]
                    = Center(EntityOf(d, h2))[2] * Center(EntityOf(d, h1))[3])
                => last.ret[1] = 0

\* two entities with different centers, to the left and to the right of each
\* other, at a distance above 0
C13_Witness ==
  /\ last.op = "calculate_distance"
  /\ last.args.handle1 # last.args.handle2
  /\ last.ret # <<>>
  /\ last.ret[1] > 0
  /\ Center(EntityOf(CallDoc, last.args.handle2))[1] * Center(EntityOf(CallDoc, last.args.handle1))[3]
       < Center(EntityOf(CallDoc, last.args.handle1))[1] * Center(EntityOf(CallDoc, last.args.handle2))[3]

\* two centers are the same point, or both absent
SamePoint(a, b) ==
  IF a = NoCenter \/ b = NoCenter THEN a = b
  ELSE a[1] * b[3] = b[1] * a[3] /\ a[2] * b[3] = b[2] * a[3]

\* the center the rules give: the insertion point of a text, the mean of the
\* vertices of a polyline in either encoding, the midpoint of a line, the
\* center of a circle, and none for any other kind
RuleCenter(e) ==
  IF e.dxftype \in {"TEXT", "MTEXT", "CIRCLE"} THEN <<e.pts[1][1], e.pts[1][2], 1>>
  ELSE IF e.dxftype \in {"LWPOLYLINE", "POLYLINE"} /\ Len(e.pts) > 0
       THEN <<SumX(e.pts), SumY(e.pts), Len(e.pts)>>
  ELSE IF e.dxftype = "LINE"
       THEN <<e.pts[1][1] + e.pts[2][1], e.pts[1][2] + e.pts[2][2], 2>>
  ELSE NoCenter

\* C14: get_entity_center of a handle that resolves returns the insertion
\* point of a text, the mean of the vertices of a polyline of either
\* encoding, the midpoint of a line, the center of a circle, and is absent
\* for every other kind.
C14_CenterRules ==
  (last.op = "get_entity_center" /\ Resolves(CallDoc, last.args.handle))
    => SamePoint(last.ret, RuleCenter(EntityOf(CallDoc, last.args.handle)))

\* C14 with the POLYLINE encoding left out of the rule: what the code does
C14_CenterRulesButPolyline ==
  (/\ last.op = "get_entity_center"
   /\ Resolves(CallDoc, last.args.handle)
   /\ EntityOf(CallDoc, last.args.handle).dxftype # "POLYLINE")
    => SamePoint(last.ret, RuleCenter(EntityOf(CallDoc, last.args.handle)))

\* the box the rules give, <<>> when there is none: the extents of the
\* endpoints of a line and of the vertices of a polyline, center minus and
\* plus radius for a circle
RuleBox(e) ==
  IF e.dxftype = "LINE" \/ (e.dxftype \in {"LWPOLYLINE", "POLYLINE"} /\ Len(e.pts) > 0)
  THEN <<[xmin |-> MinCoord(e.pts, 1), ymin |-> MinCoord(e.pts, 2),
          xmax |-> MaxCoord(e.pts, 1), ymax |-> MaxCoord(e.pts, 2)]>>
  ELSE IF e.dxftype = "CIRCLE"
  THEN <<[xmin |-> e.pts[1][1] - e.geom.radius, ymin |-> e.pts[1][2] - e.geom.radius,
          xmax |-> e.pts[1][1] + e.geom.radius, ymax |-> e.pts[1][2] + e.geom.radius]>>
  ELSE <<>>

\* C15: get_entity_bounds of a handle that resolves returns the extents of
\* the endpoints of a line, of the vertices of a polyline, center minus and
\* plus radius for a circle, and is absent for every other kind; a returned
\* box has xmin <= xmax and ymin <= ymax.
C15_BoundsRules ==
  (last.op = "get_entity_bounds" /\ Resolves(CallDoc, last.args.handle))
    => LET box == RuleBox(EntityOf(CallDoc, last.args.handle))
       IN  /\ Len(last.ret) = Len(box)
           /\ last.ret # <<>>
                => /\ last.ret[1].xmin = box[1].xmin
                   /\ last.ret[1].ymin = box[1].ymin
                   /\ last.ret[1].xmax = box[1].xmax
                   /\ last.ret[1].ymax = box[1].ymax
                   /\ last.ret[1].xmin <= last.ret[1].xmax
                   /\ last.ret[1].ymin <= last.ret[1].ymax

\* C15 for the kinds the code has a branch for: LINE and LWPOLYLINE
C15_BoundsRulesLineAndLwpolyline ==
  (/\ last.op = "get_entity_bounds"
   /\ Resolves(CallDoc, last.args.handle)
   /\ EntityOf(CallDoc, last.args.handle).dxftype \notin {"CIRCLE", "POLYLINE"})
    => LET box == RuleBox(EntityOf(CallDoc, last.args.handle))
       IN  /\ Len(last.ret) = Len(box)
           /\ last.ret # <<>>
                => /\ last.ret[1].xmin = box[1].xmin
                   /\ last.ret[1].ymin = box[1].ymin
                   /\ last.ret[1].xmax = box[1].xmax
                   /\ last.ret[1].ymax = box[1].ymax
                   /\ last.ret[1].xmin <= last.ret[1].xmax
                   /\ last.ret[1].ymin <= last.ret[1].ymax

\* the entity the last call names, when its handle resolves
CallResolves == Resolves(CallDoc, last.args.handle)

CallEntity == EntityOf(CallDoc, last.args.handle)

IsPolyline(e) == e.dxftype \in {"LWPOLYLINE", "POLYLINE"}

C17_ArcAwareOrAbsent ==
  (last.op = "get_area" /\ CallResolves /\ IsPolyline(CallEntity)
   /\ CallEntity.geom.closed /\ CallEntity.geom.bulge)
    => \/ last.ret = <<>>
       \/ last.ret[1].arcs

\* the same for the encoding and the library the code handles as claimed:
\* an LWPOLYLINE whose entity object offers get_area
C17_ArcAwareWithLibraryArea ==
  (last.op = "get_area" /\ CallResolves /\ CallEntity.dxftype = "LWPOLYLINE"
   /\ CallEntity.geom.get_area /\ CallEntity.geom.closed /\ CallEntity.geom.bulge)
    => \/ last.ret = <<>>
       \/ last.ret[1].arcs

RECURSIVE SumTo(_, _)
\* f[1] + ... + f[n]
SumTo(f, n) == IF n = 0 THEN 0 ELSE f[n] + SumTo(f, n - 1)

NextIndex(pts, i) == IF i = Len(pts) THEN 1 ELSE i + 1

PrevIndex(pts, i) == IF i = 1 THEN Len(pts) ELSE i - 1

\* twice the signed area of the polygon, as the sum of x[i] * (y[i+1] - y[i-1])
TwiceSignedArea(pts) ==
  SumTo([i \in 1..Len(pts) |->
           pts[i][1] * (pts[NextIndex(pts, i)][2] - pts[PrevIndex(pts, i)][2])],
        Len(pts))

SquaredLength(a, b) == (b[1] - a[1]) * (b[1] - a[1]) + (b[2] - a[2]) * (b[2] - a[2])

\* the root of a perfect square
RootOf(q) == CHOOSE r \in 0..q : r * r = q

IsRectangle(pts) == pts \in {Rectangle, Reverse(Rectangle)}

\* C18: for a closed straight-edge polygon of at least three vertices the
\* area is half the absolute value of the shoelace sum of the vertices in
\* stored order, and the perimeter is the sum of the lengths of the edges
\* between consecutive vertices plus the closing edge from the last vertex to
\* the first; the rectangle (0,0)-(10,0)-(10,5)-(0,5) has area 50 and
\* perimeter 30 in either orientation.
C18_AreaAndPerimeter ==
  /\ (last.op = "get_area" /\ CallResolves /\ IsPolyline(CallEntity)
      /\ CallEntity.geom.closed /\ ~CallEntity.geom.bulge /\ Len(CallEntity.pts) >= 3)
       => /\ last.ret # <<>>
          /\ last.ret[1].unit = "1"
          /\ last.ret[1].twice = Abs(TwiceSignedArea(CallEntity.pts))
          /\ IsRectangle(CallEntity.pts) => last.ret[1].twice = 2 * 50
  /\ (last.op = "polygon_perimeter" /\ Len(last.args.pts) >= 3)
       => LET pts == last.args.pts
              n == Len(pts)
          IN  /\ Len(last.ret) = n
              /\ \A i \in 1..(n - 1) : last.ret[i] = SquaredLength(pts[i], pts[i + 1])
              /\ last.ret[n] = SquaredLength(pts[n], pts[1])
              /\ IsRectangle(pts)
                   => SumTo([i \in 1..n |-> RootOf(last.ret[i])], n) = 30

\* the area of the clockwise rectangle was asked and answered with 50
C18_Witness ==
  /\ last.op = "get_area" /\ CallResolves /\ IsPolyline(CallEntity)
  /\ CallEntity.geom.closed /\ ~CallEntity.geom.bulge
  /\ CallEntity.pts = Reverse(Rectangle)
  /\ TwiceSignedArea(CallEntity.pts) < 0
  /\ last.ret = <<Area(100, "1", FALSE)>>

\* twice the signed area of the triangle pts[1], pts[i], pts[i + 1]
FanCross(pts, i) ==
  (pts[i][1] - pts[1][1]) * (pts[i + 1][2] - pts[1][2])
  - (pts[i + 1][1] - pts[1][1]) * (pts[i][2] - pts[1][2])

\* the sum, over the triangles of the fan at pts[1], of the signed area
\* times the sum of the coordinate k of the three corners
FanMoment(pts, k) ==
  SumTo([j \in 1..(Len(pts) - 2) |->
           FanCross(pts, j + 1) * (pts[1][k] + pts[j + 1][k] + pts[j + 2][k])],
        Len(pts) - 2)

IsSquare(pts) == pts \in {Square, Reverse(Square)}

\* C19: polygon_centroid_xy returns the centroid of the vertex list weighted
\* by signed area (the area-weighted mean of the centroids of the triangles
\* of a fan); the square (0,0)-(10,0)-(10,10)-(0,10) gives (5,5) in either
\* orientation; a vertex list of signed area zero gives absent.
C19_Centroid ==
  (last.op = "polygon_centroid_xy")
    => LET pts == last.args.pts
           a2 == TwiceSignedArea(pts)
       IN  /\ a2 = 0 => last.ret = <<>>
           /\ a2 # 0 =>
                /\ last.ret # <<>>
                /\ last.ret[3] # 0
                /\ last.ret[1] * (3 * a2) = FanMoment(pts, 1) * last.ret[3]
                /\ last.ret[2] * (3 * a2) = FanMoment(pts, 2) * last.ret[3]
           /\ IsSquare(pts) => (last.ret # <<>> /\ IsPoint(last.ret, 5, 5))

\* the centroid of the clockwise square was asked and answered with (5,5)
C19_Witness ==
  /\ last.op = "polygon_centroid_xy"
  /\ last.args.pts = Reverse(Square)
  /\ TwiceSignedArea(last.args.pts) < 0
  /\ last.ret # <<>>
  /\ IsPoint(last.ret, 5, 5)

\* the centroid of a list of three collinear, distinct vertices was asked
\* and answered absent
C19_WitnessCollinear ==
  /\ last.op = "polygon_centroid_xy"
  /\ Len(last.args.pts) = 3
  /\ TwiceSignedArea(last.args.pts) = 0
  /\ last.ret = <<>>

ReadOnlyOps ==
  {"get_entity_info", "get_area", "get_entity_center", "get_entity_bounds",
   "calculate_distance", "find_entities_near_point", "find_entities_in_region",
   "find_entities_between", "find_adjacent_entities"}

\* the handles the last call was given
CallHandles ==
  IF "handle" \in DOMAIN last.args THEN {last.args.handle}
  ELSE IF "handle1" \in DOMAIN last.args THEN {last.args.handle1, last.args.handle2}
  ELSE {}

\* an entity without geometry to work on: a polyline without vertices, a
\* hatch without area
Unrepresentable(e) ==
  \/ e.dxftype = "LWPOLYLINE" /\ e.pts = <<>>
  \/ e.dxftype = "HATCH" /\ e.geom.area = <<>>

\* the last call was given a handle that does not resolve, or one of an
\* entity without geometry to work on
CallCannotAnswer ==
  \E h \in CallHandles :
    \/ ~Resolves(CallDoc, h)
    \/ Unrepresentable(EntityOf(CallDoc, h))

\* C20: no read-only entry point raises; given a handle that does not
\* resolve it returns an absent value or an empty sequence, and given an
\* entity whose geometry cannot be represented its geometric result (center,
\* bounds, distance, area, neighbours, entities between) is absent or empty
\* and get_entity_info reports no area; only mutation entry points raise, and
\* what they raise is KeyError (NotFound) or TypeError (WrongEntityKind).
C20_ReadOnlyNeverRaises ==
  /\ last.op \in ReadOnlyOps
       => /\ last.raised = "none"
          /\ last.writes = <<>>
          /\ (\E h \in CallHandles : ~Resolves(CallDoc, h)) => last.ret = <<>>
          /\ (CallCannotAnswer /\ last.op # "get_entity_info") => last.ret = <<>>
          /\ (CallCannotAnswer /\ last.op = "get_entity_info" /\ last.ret # <<>>)
               => ("area" \in DOMAIN last.ret[1].kind => last.ret[1].kind.area = <<>>)
  /\ last.raised # "none"
       => /\ last.op \in {"delete_entity", "edit_text"}
          /\ last.raised \in {"KeyError", "TypeError"}

\* calculate_distance between an entity with a center and a handle that does
\* not resolve answered absent without raising
C20_Witness ==
  /\ last.op = "calculate_distance"
  /\ Resolves(CallDoc, last.args.handle1)
  /\ Center(EntityOf(CallDoc, last.args.handle1)) # NoCenter
  /\ ~Resolves(CallDoc, last.args.handle2)
  /\ last.raised = "none"
  /\ last.ret = <<>>

\* get_area of a hatch without area answered absent without raising
C20_WitnessUnrepresentable ==
  /\ last.op = "get_area"
  /\ Resolves(CallDoc, last.args.handle)
  /\ Unrepresentable(EntityOf(CallDoc, last.args.handle))
  /\ last.raised = "none"
  /\ last.ret = <<>>

\* a mutation raised
C20_WitnessMutationRaises ==
  /\ last.op = "edit_text"
  /\ last.raised = "TypeError"

\* the entities summarize_dxf traverses in the last call, in order
Traversed ==
  CallDoc.entities
  \o (IF last.args.include_paperspace THEN CallDoc.paper ELSE <<>>)

\* the entity object answers what the pass asks of every entity
Readable(e) == e.geom.fails # "dxftype"

Letters(s) == SelectSeq(s, LAMBDA ch : ch \notin Whitespace \cup {NUL})

\* the position in s of its k-th letter
LetterPos(s, k) ==
  CHOOSE i \in 1..Len(s) :
    /\ s[i] \notin Whitespace \cup {NUL}
    /\ Cardinality({j \in 1..i : s[j] \notin Whitespace \cup {NUL}}) = k

\* r is s with the NUL characters removed, every run of whitespace
\* collapsed to one blank, and trimmed
IsNormalized(r, s) ==
  /\ \A i \in 1..Len(r) : r[i] # NUL /\ r[i] # TAB
  /\ r # <<>> => (r[1] # SPACE /\ r[Len(r)] # SPACE)
  /\ \A i \in 1..(Len(r) - 1) : ~(r[i] = SPACE /\ r[i + 1] = SPACE)
  /\ Letters(r) = Letters(s)
  /\ \A k \in 1..(Len(Letters(s)) - 1) :
       (LetterPos(r, k + 1) = LetterPos(r, k) + 2)
         <=> \E i \in (LetterPos(s, k) + 1)..(LetterPos(s, k + 1) - 1) :
               s[i] \in Whitespace

\* the text a label shows: the content, without formatting codes for MTEXT
DisplayText(e) ==
  IF e.dxftype = "MTEXT" THEN SelectSeq(e.text, LAMBDA ch : ch # FMT) ELSE e.text

\* a text label whose text can be read and is not blank
IndexableText(e) ==
  /\ Readable(e)
  /\ e.dxftype \in {"TEXT", "MTEXT"}
  /\ e.geom.fails # "text"
  /\ Letters(DisplayText(e)) # <<>>

\* C21: the text index of the summary holds, in traversal order, the
\* normalized text (NUL removed, whitespace runs collapsed to one blank,
\* trimmed) of text labels; no entry has empty text; there are never more
\* entries than max_text_items; and the truncated flag is set whenever a
\* label with non-empty normalized text was left out because of the cap.
C21_TextIndex ==
  last.op = "summarize_dxf"
    => LET items    == last.ret.text_index.items
           eligible == SelectSeq(Traversed, IndexableText)
       IN  /\ Len(items) <= last.args.max_text_items
           /\ last.ret.text_index.count = Len(items)
           /\ Len(items) <= Len(eligible)
           /\ Len(items) < Len(eligible) => Len(items) = last.args.max_text_items
           /\ \A j \in 1..Len(items) :
                /\ items[j].handle = eligible[j].handle
                /\ items[j].text # <<>>
                /\ IsNormalized(items[j].text, DisplayText(eligible[j]))
           /\ Len(items) < Len(eligible) => last.ret.text_index.truncated

\* an untidy MTEXT was indexed with its normalized text and a second label
\* was left out because the cap of one was reached
C21_Witness ==
  /\ last.op = "summarize_dxf"
  /\ last.args.max_text_items = 1
  /\ Len(SelectSeq(Traversed, IndexableText)) = 2
  /\ Len(last.ret.text_index.items) = 1
  /\ last.ret.text_index.items[1].text = <<"a", SPACE, "b", "a">>
  /\ last.ret.text_index.truncated

\* a closed polyline whose closed flag can be read, or a hatch
BoundaryEligible(e) ==
  /\ Readable(e)
  /\ \/ e.dxftype \in {"LWPOLYLINE", "POLYLINE"} /\ e.geom.closed
        /\ e.geom.fails # "closed"
     \/ e.dxftype = "HATCH"

\* the entries of the boundary index are the first eligible entities, as
\* many as the cap allows, and every measure of an entry is absent or the
\* measure of its entity
BoundaryEntries ==
  LET items    == last.ret.boundary_candidates.items
      eligible == SelectSeq(Traversed, BoundaryEligible)
  IN  /\ Len(items) <= last.args.max_boundary_candidates
      /\ Len(items) <= Len(eligible)
      /\ Len(items) < Len(eligible) => Len(items) = last.args.max_boundary_candidates
      /\ \A j \in 1..Len(items) :
           /\ items[j].handle = eligible[j].handle
           /\ items[j].dxftype = eligible[j].dxftype
           /\ items[j].dxftype = "HATCH"
                => items[j].area \in {<<>>} \cup
                     { <<Area(2 * a, "1", FALSE)>> : a \in {0, 6} }
           /\ items[j].dxftype # "HATCH"
                => /\ items[j].area # <<>>
                      => items[j].area[1].twice = Abs(TwiceSignedArea(eligible[j].pts))
                   /\ items[j].perimeter # <<>>
                      => /\ Len(items[j].perimeter[1]) = Len(eligible[j].pts)
                         /\ \A i \in 1..Len(eligible[j].pts) :
                              items[j].perimeter[1][i] =
                                SquaredLength(eligible[j].pts[i],
                                              eligible[j].pts[NextIndex(eligible[j].pts, i)])

\* C22: the boundary-candidate index contains, up to the cap, every closed
\* polyline and every hatch of the traversed layouts and nothing else; the
\* measures of an entry are the computed values or absent; and for a closed
\* polyline with an arc segment the perimeter and the centroid are absent.
C22_BoundaryIndex ==
  last.op = "summarize_dxf"
    => /\ BoundaryEntries
       /\ \A j \in 1..Len(last.ret.boundary_candidates.items) :
            LET e == SelectSeq(Traversed, BoundaryEligible)[j]
            IN  (e.dxftype \in {"LWPOLYLINE", "POLYLINE"} /\ e.geom.bulge)
                  => /\ last.ret.boundary_candidates.items[j].perimeter = <<>>
                     /\ last.ret.boundary_candidates.items[j].centroid_xy = <<>>

\* the same with the arc clause for the LWPOLYLINE encoding only, which is
\* what polyline_vertices_xy_if_safe tests
C22_BoundaryIndexLwpolylineArcs ==
  last.op = "summarize_dxf"
    => /\ BoundaryEntries
       /\ \A j \in 1..Len(last.ret.boundary_candidates.items) :
            LET e == SelectSeq(Traversed, BoundaryEligible)[j]
            IN  (e.dxftype = "LWPOLYLINE" /\ e.geom.bulge)
                  => /\ last.ret.boundary_candidates.items[j].perimeter = <<>>
                     /\ last.ret.boundary_candidates.items[j].centroid_xy = <<>>

\* one of the accesses to the entity object raises
Failing(e) == e.geom.fails # "none"

\* how many of the entities satisfy P
CountOf(entities, P(_)) == Len(SelectSeq(entities, P))

C29_TruncatedExact ==
  last.op = "summarize_dxf"
    => /\ last.ret.text_index.truncated
            <=> Len(last.ret.text_index.items) < CountOf(Traversed, IndexableText)
       /\ last.ret.boundary_candidates.truncated
            <=> Len(last.ret.boundary_candidates.items) < CountOf(Traversed, BoundaryEligible)

\* the half of it that the code keeps: a flag that is false tells that
\* nothing was left out
C29_NotTruncatedIsComplete ==
  last.op = "summarize_dxf"
    => /\ ~last.ret.text_index.truncated
            => Len(last.ret.text_index.items) = CountOf(Traversed, IndexableText)
       /\ ~last.ret.boundary_candidates.truncated
            => Len(last.ret.boundary_candidates.items) = CountOf(Traversed, BoundaryEligible)

\* C25: list_layers returns one record for every layer the document
\* defines, with the properties of the layer and the counts of its entities
\* by type; a defined layer without entities is listed with an empty count
\* map and total_entities 0.
C25_EveryDefinedLayerListed ==
  last.op = "list_layers"
    => \A ln \in DOMAIN CallDoc.layers :
         \E j \in 1..Len(last.ret) :
           /\ last.ret[j].name = ln
           /\ last.ret[j].color = <<CallDoc.layers[ln]>>
           /\ last.ret[j].total_entities
                = CountOf(CallDoc.entities, LAMBDA e : Readable(e) /\ e.layer = ln
                                                        /\ e.geom.fails # "layer")
           /\ last.ret[j].total_entities = 0 => DOMAIN last.ret[j].entity_counts = {}

\* what the code does return: one record for every layer that has an entity
\* on it, defined or not, with the counts of these entities
C25_LayersWithEntitiesListed ==
  last.op = "list_layers"
    => /\ \A j \in 1..Len(last.ret) : last.ret[j].total_entities > 0
       /\ \A ln \in DOMAIN CallDoc.layers :
            LET n == CountOf(CallDoc.entities, LAMBDA e : Readable(e) /\ e.layer = ln
                                                           /\ e.geom.fails # "layer")
            IN  n > 0 => \E j \in 1..Len(last.ret) :
                           /\ last.ret[j].name = ln
                           /\ last.ret[j].color = <<CallDoc.layers[ln]>>
                           /\ last.ret[j].total_entities = n
                           /\ SumValues(last.ret[j].entity_counts) = n

\* every layer-filtered entity of the document that has a center, in
\* traversal order, as find_entities_in_region would report it
AllWithCenter ==
  LET es == SelectSeq(CallDoc.entities,
                      LAMBDA e : /\ Center(e) # NoCenter
                                 /\ \/ last.args.layer_pattern = None
                                    \/ e.layer = last.args.layer_pattern)
  IN  [i \in 1..Len(es) |-> [info |-> ExtractEntityInfo(es[i]), center |-> Center(es[i])]]

\* the center of e lies in the bounding box of the segment from P1 to P2
\* expanded by max_distance_from_line on every side
InExpandedBox(e) ==
  LET c == Center(e)
      d == last.args.max_distance_from_line
      NotBelow(k, p) == p[k] * c[3] - d * p[3] * c[3] <= c[k] * p[3]
      NotAbove(k, p) == c[k] * p[3] <= p[k] * c[3] + d * p[3] * c[3]
  IN  /\ NotBelow(1, BetweenP1) \/ NotBelow(1, BetweenP2)
      /\ NotAbove(1, BetweenP1) \/ NotAbove(1, BetweenP2)
      /\ NotBelow(2, BetweenP1) \/ NotBelow(2, BetweenP2)
      /\ NotAbove(2, BetweenP1) \/ NotAbove(2, BetweenP2)

\* C28: the bounding-box prefilter of find_entities_between loses no result:
\* for references with distinct centers, any layer filter and a
\* max_distance_from_line >= 0, the result equals the acceptance test
\* (projection and perpendicular distance) applied directly to every
\* layer-filtered entity with a center other than the references, sorted the
\* same way; every entity that passes the test lies inside the bounding box
\* of the segment expanded by max_distance_from_line.
C28_PrefilterLosesNothing ==
  (last.op = "find_entities_between" /\ BetweenReferencesDefined /\ ~BetweenDegenerate
   /\ last.args.max_distance_from_line >= 0)
    => /\ last.ret = SortByCenterline(BetweenLoop(AllWithCenter, last.args.handle1,
                                                  last.args.handle2, BetweenP1, BetweenP2,
                                                  last.args.max_distance_from_line, <<>>),
                                      <<>>)
       /\ \A i \in DOMAIN CallDoc.entities :
            (BetweenCandidate(CallDoc.entities[i]) /\ InCorridor(CallDoc.entities[i]))
              => InExpandedBox(CallDoc.entities[i])

\* a call whose result holds an entity off the segment while another
\* candidate of the document lies outside the expanded bounding box
C28_Witness ==
  /\ last.op = "find_entities_between"
  /\ BetweenReferencesDefined
  /\ ~BetweenDegenerate
  /\ \E j \in DOMAIN last.ret : last.ret[j].distance_from_centerline[1] > 0
  /\ \E i \in DOMAIN CallDoc.entities :
       /\ BetweenCandidate(CallDoc.entities[i])
       /\ ~InExpandedBox(CallDoc.entities[i])

\* the entity records a query result holds
ResultInfos ==
  IF last.op \in {"get_entity_info"} THEN last.ret
  ELSE IF last.op = "find_entities_in_region"
  THEN [j \in 1..Len(last.ret) |-> last.ret[j].info]
  ELSE <<>>

\* the last call is a query of the file that the mutation before it edited
\* in place
QueryAfterInPlace(op) ==
  /\ last.op \in {"get_entity_info", "get_entity_center", "find_entities_in_region",
                  "list_layers"}
  /\ last.prev.op = op
  /\ last.prev.args.output_path = None
  /\ last.prev.args.dxf_path = last.args.dxf_path

\* C26: a query reads the persisted document when it is called, so a query
\* issued after an in-place mutation answers from the mutated document: after
\* delete_entity the handle is in no result, after edit_text the entity shows
\* the new text, after color_layer the layer and its entities have the new
\* color.
C26_QueryReadsMutatedDocument ==
  /\ QueryAfterInPlace("delete_entity")
       => /\ \A j \in DOMAIN ResultInfos : ResultInfos[j].handle # last.prev.args.handle
          /\ (last.op = "get_entity_center" /\ last.args.handle = last.prev.args.handle)
               => last.ret = NoCenter
  /\ QueryAfterInPlace("edit_text")
       => \A j \in DOMAIN ResultInfos :
            (last.op = "get_entity_info" /\ ResultInfos[j].handle = last.prev.args.handle
             /\ ResultInfos[j].dxftype \in {"TEXT", "MTEXT"})
              => ResultInfos[j].kind.text =
                   SelectSeq(last.prev.args.new_text,
                             LAMBDA ch : ResultInfos[j].dxftype = "TEXT" \/ ch # FMT)
  /\ QueryAfterInPlace("color_layer")
       => /\ \A j \in DOMAIN ResultInfos :
               ResultInfos[j].layer = last.prev.args.layer_name
                 => ResultInfos[j].color = last.prev.args.color
          /\ last.op = "list_layers"
               => \A j \in DOMAIN last.ret :
                    last.ret[j].name = last.prev.args.layer_name
                      => last.ret[j].color = <<last.prev.args.color>>

\* get_entity_info answers with the text an in-place edit_text has just
\* written
C26_Witness ==
  /\ QueryAfterInPlace("edit_text")
  /\ last.op = "get_entity_info"
  /\ last.args.handle = last.prev.args.handle
  /\ last.ret # <<>>
  /\ last.ret[1].dxftype = "MTEXT"
  /\ last.ret[1].kind.text = <<"b">>

\* the change a caller's mutation makes to a document
ApplyOf(c, doc) ==
  IF callers[c].op = "color_layer"
  THEN ColorLayerDoc(doc, callers[c].args.layer_name, callers[c].args.color)
  ELSE SetTextDoc(doc, callers[c].args.handle, callers[c].args.new_text)

\* w has written the file and nobody has written it after w
WroteLast(w) ==
  /\ callers[w].wrote > 0
  /\ \A o \in Callers : callers[o].wrote <= callers[w].wrote

\* C27: two callers mutate one file with no lock, each loading the whole
\* document, changing it and writing the whole document.  The file is the
\* document of the caller that wrote last.  When both have written: if the
\* last writer loaded before the other's write, the file is its mutation
\* applied to the original document and the other's mutation is lost; if it
\* loaded after the other's write (serialized calls), the file holds both
\* mutations.
C27_LastWriteWins ==
  \A w \in Callers :
    WroteLast(w)
      => /\ files[callers[w].args.dxf_path] = callers[w].mem
         /\ \A o \in Callers \ {w} :
              callers[o].wrote > 0
                => LET doc0 == callers[o].read[1]
                   IN  IF callers[w].read_at = 0
                       THEN files[SrcPath] = <<ApplyOf(w, doc0)>>
                       ELSE files[SrcPath] = <<ApplyOf(w, ApplyOf(o, doc0))>>

\* a lost update: both callers have written, the text the first writer set
\* is not in the file
C27_Witness ==
  \E w \in Callers, o \in Callers :
    /\ w # o
    /\ WroteLast(w)
    /\ callers[o].wrote > 0
    /\ callers[w].read_at = 0
    /\ callers[o].op = "edit_text"
    /\ callers[w].op = "color_layer"
    /\ EntityDb(files[SrcPath][1], callers[o].args.handle).text # callers[o].args.new_text

\* serialized calls: the second caller loaded after the first one's write and
\* the file holds the text of the first and the color of the second
C27_WitnessSerialized ==
  \E w \in Callers, o \in Callers :
    /\ w # o
    /\ WroteLast(w)
    /\ callers[o].wrote > 0
    /\ callers[w].read_at = 1
    /\ callers[o].op = "edit_text"
    /\ callers[w].op = "color_layer"
    /\ EntityDb(files[SrcPath][1], callers[o].args.handle).text = callers[o].args.new_text
    /\ EntityDb(files[SrcPath][1], callers[o].args.handle).color = callers[w].args.color
    /\ EntityDb(callers[o].read[1], callers[o].args.handle).color # callers[w].args.color

\* what the tool call of turn t of the last chat returned, <<>> when the
\* turn called no tool
OutputOf(t) ==
  LET response == last.args.responses[t]
  IN  IF agent.class = "CADAgent"
      THEN IF response.stop_reason = "tool_use" THEN <<response.content[2].output>> ELSE <<>>
      ELSE IF response.function_call # <<>> THEN <<response.function_call[1].output>>
      ELSE <<>>

\* what went back to the model for the tool call of turn t of the last chat
SentBack(t) ==
  LET message == agent.messages[agent.start + 2 * t + 1]
  IN  IF agent.class = "CADAgent" THEN message.content[1].content ELSE message.content

\* C24: in the dispatch of both agents a tool result that is a list of more
\* than 20 items goes back to the model as its first 20 items followed by one
\* note item that states the number of omitted items (the length minus 20);
\* a list of 20 items or fewer, and a result that is no list, goes back
\* unchanged.
C24_DispatchTruncates ==
  last.op = "chat"
    => \A t \in DOMAIN last.args.responses :
         OutputOf(t) # <<>>
           => LET output == OutputOf(t)[1]
                  sent   == SentBack(t)
              IN  IF output.type = "list" /\ Len(output.value) > 20
                  THEN /\ sent.type = "list"
                       /\ Len(sent.value) = 21
                       /\ SubSeq(sent.value, 1, 20) = SubSeq(output.value, 1, 20)
                       /\ DOMAIN sent.value[21] = {"note", "text"}
                       /\ sent.value[21].note = Len(output.value) - 20
                  ELSE sent = output

\* CADAgent.chat sends back a list of MaxItems items as 20 items and a note
C24_Witness ==
  /\ last.op = "chat"
  /\ agent.class = "CADAgent"
  /\ \E t \in DOMAIN last.args.responses :
       /\ OutputOf(t) = <<[type |-> "list", value |-> Items(MaxItems)]>>
       /\ Len(SentBack(t).value) = 21
       /\ SentBack(t).value[21].note = MaxItems - 20

\* CADAgentOpenAI.chat does the same, and sends a list of 20 items as it is
C24_WitnessOpenAI ==
  /\ last.op = "chat"
  /\ agent.class = "CADAgentOpenAI"
  /\ \E t \in DOMAIN last.args.responses, u \in DOMAIN last.args.responses :
       /\ OutputOf(t) = <<[type |-> "list", value |-> Items(MaxItems)]>>
       /\ Len(SentBack(t).value) = 21
       /\ OutputOf(u) = <<[type |-> "list", value |-> Items(20)]>>
       /\ SentBack(u).value = Items(20)

\* messages i and i + 1 of the history have different roles
RolesDiffer(i) == agent.messages[i].role # agent.messages[i + 1].role

\* C30 (violated): whatever way each CADAgent.chat call ends, the stored
\* history starts with a user message and no two consecutive messages have
\* the same role; and each chat call makes at most max_turns model requests.
C30_HistoryAlternates ==
  agent.class = "CADAgent"
    => /\ agent.messages # <<>> => agent.messages[1].role = "user"
       /\ \A i \in 1..(Len(agent.messages) - 1) : RolesDiffer(i)
       /\ last.op = "chat" => agent.requests <= last.args.max_turns

\* what holds of the history: it starts with a user message, each chat call
\* makes at most max_turns model requests, the messages one chat call appends
\* alternate, and two consecutive messages of the same role are both user
\* messages
C30_AlternatesWithinChat ==
  agent.class = "CADAgent"
    => /\ agent.messages # <<>> => agent.messages[1].role = "user"
       /\ last.op = "chat" => agent.requests <= last.args.max_turns
       /\ last.op = "chat"
            => \A i \in (agent.start + 1)..(Len(agent.messages) - 1) : RolesDiffer(i)
       /\ \A i \in 1..(Len(agent.messages) - 1) :
            ~RolesDiffer(i)
              => /\ agent.messages[i].role = "user"
                 /\ agent.messages[i + 1].role = "user"

\* a chat call that ended at max_turns after a tool call, followed by
\* another chat call
C30_TwoUserMessages ==
  /\ agent.class = "CADAgent"
  /\ last.op = "chat"
  /\ agent.start > 0
  /\ agent.messages[agent.start].role = "user"
  /\ agent.messages[agent.start + 1].role = "user"

====
